---- MODULE Spec2Model ----
(***************************************************************************)
(* A model of the upload pipeline and of the mutable ("magic") metadata    *)
(* update protocol of the web client, and of the memories cache of the     *)
(* mobile client.                                                          *)
(*                                                                         *)
(*   SpecUpload  upload() from the call of uploadToBucket on:              *)
(*               uploadToBucket, uploadStreamUsingMultipart,               *)
(*               nextMultipartUploadPart, the abortable retrier, the       *)
(*               finalize call and the catch block of upload().            *)
(*   SpecPool    UploadService's pool of pre-signed upload URLs under      *)
(*               concurrent getUploadURL / setFileCount callers.           *)
(*   SpecMeta    updateRemotePrivateMagicMetadata and                      *)
(*               updateRemotePublicMagicMetadata against a versioned       *)
(*               remote.                                                   *)
(*   SpecStream  readUploadItem's chunking transformer feeding             *)
(*               encryptFileStream, for one file.                          *)
(*   SpecDedup   upload()'s check of the asset against the existing files. *)
(*   SpecLive    areLivePhotoAssets, for one pair of assets.               *)
(*   SpecExtract upload() from readAssetDetails to the metadata, its hash  *)
(*               and the check against an existing file.                   *)
(*   SpecProgress the percentages uploadToBucket reports, in the           *)
(*               arithmetic of doubles.                                    *)
(*   SpecService the pool with logout() and with the pipelines that hold   *)
(*               the URLs they took.                                       *)
(*   SpecMemories the mobile client's MemoriesCacheService: updateCache    *)
(*               under its lock, and queueUpdateCache.                     *)
(*                                                                         *)
(* JavaScript and Dart run one continuation at a time: the code between    *)
(* two awaits is one atomic action here.                                   *)
(***************************************************************************)
EXTENDS Integers, Sequences, FiniteSets, TLC

VARIABLES
    \* ---- upload() / uploadToBucket / uploadStreamUsingMultipart ----
    pc,                 \* position of the asset's pipeline
    cancelled,          \* the flag abortIfCancelled polls
    encryptedData,      \* file.encryptedData: bytes, or a stream and its chunkCount
    hasStaticThumbnail, \* metadata.hasStaticThumbnail
    partURLs,           \* multipartUploadURLs.partURLs, as their number (-1: not fetched)
    streamPos,          \* chunks read from the encrypted stream so far
    index,              \* loop index over partURLs.entries()
    partData,           \* the chunks merged into the part being uploaded
    completedParts,     \* MultipartCompletedPart[]
    req,                \* the request the retrier is carrying
    attempt,            \* failed attempts of the current retrier call
    failures,           \* failed attempts of the whole upload
    net,                \* every network request issued, in order
    err,                \* the error thrown into upload()'s catch block
    uploadResult,       \* UploadResponse.uploadResult
    cancelAt,           \* where the pipeline was when the flag was set
    uploadURLsTaken,    \* what each URL got from uploadService.getUploadURL() is for
    \* ---- UploadService: the pool of pre-signed upload URLs ----
    uploadURLs,             \* UploadService.uploadURLs
    pendingUploadCount,     \* UploadService.pendingUploadCount
    activeUploadURLRefill,  \* the refill promise held (its number), 0: undefined
    refills,                \* every _refillUploadURLs() promise made so far
    callers,                \* the concurrent callers of the service
    calls,                  \* calls made so far
    \* ---- the mutable metadata of one file ----
    magicMetadata,      \* file.magicMetadata: the private tier's envelope
    pubMagicMetadata,   \* file.pubMagicMetadata: the public tier's envelope
    remote,             \* what the remote stores for each tier
    updaters,           \* the interactive updates under way
    applied,            \* per tier, the updates applied since the last sync
    synced,             \* per tier, version and content as of the last sync
    updateCount,        \* interactive updates started so far
    \* ---- readUploadItem and encryptFileStream: one file's byte stream ----
    fileStream,         \* what readUploadItem returned: fileSize and chunkCount
    sourceBytes,        \* the bytes the underlying stream holds
    sourcePos,          \* the bytes the underlying stream has delivered
    pending,            \* the transformer's pending bytes (<< >>: undefined)
    plain,              \* every chunk the transformer has enqueued, in order
    flushed,            \* the underlying stream ended and flush() has run
    taken,              \* chunks fileStreamReader.read() has returned
    pullCount,          \* ref.pullCount
    pushCalls,          \* the encryptStreamChunk calls made, in order
    encrypted,          \* the chunks enqueued on the encrypted stream
    encState,           \* the encrypted stream: "readable", "closed", "errored"
    \* ---- upload(): the check against the existing files ----
    assetMetadata,      \* metadata, as extractAssetMetadata returned it
    existingFiles,      \* existingFiles: each file's collectionID and metadata
    collection,         \* the collection uploaded to
    matches,            \* matches, as positions in existingFiles
    dedupPc,            \* position of upload() around the check
    steps,              \* the calls upload() has made after the metadata
    uploadResponse,     \* the UploadResponse returned
    \* ---- areLivePhotoAssets ----
    assetF,             \* f, the first asset
    assetG,             \* g, the second asset
    livePc,             \* position of areLivePhotoAssets
    sizes,              \* fSize and gSize
    jsons,              \* fParsedMetadataJSON and gParsedMetadataJSON
    dates,              \* fDate and gDate
    areLivePhoto,       \* what areLivePhotoAssets returned
    \* ---- upload(): reading the asset and its metadata ----
    uploadAsset,        \* the asset: one item, or the two of a live photo
    existingFile,       \* the existing file upload() compares with
    extractPc,          \* position of upload()
    assetSize,          \* assetDetails.fileSize, -1 until read
    hashed,             \* the calls of computeHash: what was read, the result
    extractedMetadata,  \* metadata, as extractAssetMetadata returned it
    performed,          \* the calls upload() has made, in order
    extractErr,         \* the exception caught by upload()
    extractResult,      \* the uploadResult returned
    \* ---- uploadToBucket: the progress reported ----
    random,             \* what Math.random() returns
    progressFile,       \* file.encryptedData: bytes, or a stream
    progressPc,         \* position of uploadToBucket
    maxPercent,         \* maxPercent
    percentPerPart,     \* percentPerPart
    partURLCount,       \* multipartUploadURLs.partURLs.length
    partNumber,         \* the part uploaded last
    progress,           \* the percentages passed to updateUploadProgress
    \* ---- UploadService with logout, and the pipelines using it ----
    held,               \* per pipeline, the URLs getUploadURL gave it
    logouts,            \* calls of logout so far
    stale,              \* the refill requests that were in flight at a logout
    \* ---- MemoriesCacheService ----
    shouldUpdate,           \* _shouldUpdate
    shouldUpdateCachePref,  \* the stored preference memories.shouldUpdateCache
    isUpdatingMemories,     \* _isUpdatingMemories
    timeToUpdateCache,      \* what _timeToUpdateCache() returns
    memoriesUpdateLock,     \* _memoriesUpdateLock: its holder, then the waiting
    cacheUpdates,           \* per caller, the position of its updateCache
    updateCalls,            \* calls of updateCache so far
    queueCalls,             \* calls of queueUpdateCache from outside so far
    delayedCheck,           \* the constructor's delayed check is to come
    queuedWhileUpdating     \* an update was queued during a recomputation

uploadVars ==
    << pc, cancelled, encryptedData, hasStaticThumbnail, partURLs, streamPos,
       index, partData, completedParts, req, attempt, failures, net, err,
       uploadResult, cancelAt, uploadURLsTaken >>

poolVars ==
    << uploadURLs, pendingUploadCount, activeUploadURLRefill, refills, callers,
       calls >>

metaVars ==
    << magicMetadata, pubMagicMetadata, remote, updaters, applied, synced,
       updateCount >>

streamVars ==
    << fileStream, sourceBytes, sourcePos, pending, plain, flushed, taken,
       pullCount, pushCalls, encrypted, encState >>

dedupVars ==
    << assetMetadata, existingFiles, collection, matches, dedupPc, steps,
       uploadResponse >>

liveVars == << assetF, assetG, livePc, sizes, jsons, dates, areLivePhoto >>

extractVars ==
    << uploadAsset, existingFile, extractPc, assetSize, hashed,
       extractedMetadata, performed, extractErr, extractResult >>

progressVars ==
    << random, progressFile, progressPc, maxPercent, percentPerPart,
       partURLCount, partNumber, progress >>

serviceVars == << held, logouts, stale >>

memoriesVars ==
    << shouldUpdate, shouldUpdateCachePref, isUpdatingMemories,
       timeToUpdateCache, memoriesUpdateLock, cacheUpdates, updateCalls,
       queueCalls, delayedCheck, queuedWhileUpdating >>

otherVars ==
    << streamVars, dedupVars, liveVars, extractVars, progressVars,
       serviceVars, memoriesVars >>

exceptStream ==
    << uploadVars, poolVars, metaVars, dedupVars, liveVars, extractVars,
       progressVars, serviceVars, memoriesVars >>

exceptDedup ==
    << uploadVars, poolVars, metaVars, streamVars, liveVars, extractVars,
       progressVars, serviceVars, memoriesVars >>

exceptLive ==
    << uploadVars, poolVars, metaVars, streamVars, dedupVars, extractVars,
       progressVars, serviceVars, memoriesVars >>

exceptExtract ==
    << uploadVars, poolVars, metaVars, streamVars, dedupVars, liveVars,
       progressVars, serviceVars, memoriesVars >>

exceptProgress ==
    << uploadVars, poolVars, metaVars, streamVars, dedupVars, liveVars,
       extractVars, serviceVars, memoriesVars >>

\* The service is left out together with the pool it works on.
exceptService ==
    << uploadVars, metaVars, streamVars, dedupVars, liveVars, extractVars,
       progressVars, memoriesVars >>

exceptMemories ==
    << uploadVars, poolVars, metaVars, streamVars, dedupVars, liveVars,
       extractVars, progressVars, serviceVars >>

vars == << uploadVars, poolVars, metaVars, otherVars >>

(***************************************************************************)
(* Bounds and constants                                                    *)
(***************************************************************************)
multipartChunksPerPart == 5

\* Longest encrypted stream, in chunks.
MaxChunks == 12

\* Retries the retrier makes after the first attempt.
RetryLimit == 1

\* Attempts that fail (network errors, non-2xx responses) during one upload.
MaxFailures == 2

\* The integrity tags a part PUT can return; "" is a response without one.
ETags == {"e1", "e2"}

UPLOAD_CANCELLED == "UPLOAD_CANCELLED"
eTagMissing == "eTagMissing"
FILE_TOO_LARGE == "FILE_TOO_LARGE"
MoreChunks == "More chunks than expected"
RequestFailed == "request failed"
NoUploadURL == "Failed to obtain upload URL"

Min(a, b) == IF a < b THEN a ELSE b

\* Math.ceil(a / b) for a >= 0, b > 0
Ceil(a, b) == (a + b - 1) \div b

\* The chunks from..to of the stream; a chunk is named by its position.
Chunks(from, to) == [i \in 1..(to - from + 1) |-> from + i - 1]

\* A request (or the tag a part PUT returned) as it went over the network: the
\* part number, the body's chunks, the completedParts at that moment, the tag.
NetEvent(op, n, data, parts, tag) ==
    [op |-> op, n |-> n, data |-> data, parts |-> parts, tag |-> tag]

(***************************************************************************)
(* upload(): the asset's pipeline from uploadToBucket on                   *)
(***************************************************************************)
InitUpload ==
    /\ pc = "uploadToBucket"
    /\ cancelled = FALSE
    /\ encryptedData \in
           {[kind |-> "bytes", chunkCount |-> 0]}
           \cup {[kind |-> "stream", chunkCount |-> c] : c \in 1..MaxChunks}
    /\ hasStaticThumbnail \in BOOLEAN
    /\ partURLs = -1
    /\ streamPos = 0
    /\ index = 0
    /\ partData = << >>
    /\ completedParts = << >>
    /\ req = "none"
    /\ attempt = 0
    /\ failures = 0
    /\ net = << >>
    /\ err = "none"
    /\ uploadResult = "none"
    /\ cancelAt = [pc |-> "none", req |-> "none", attempt |-> 0, parts |-> 0, net |-> 0]
    /\ uploadURLsTaken = << >>

\* throw e, caught by the catch block of upload()
Throw(e) == pc' = "catch" /\ err' = e

\* The user cancels: the flag abortIfCancelled polls becomes set.
Cancel ==
    /\ ~cancelled
    /\ pc \notin {"done", "rejected"}
    /\ cancelled' = TRUE
    /\ cancelAt' = [pc |-> pc, req |-> req, attempt |-> attempt,
                    parts |-> Len(completedParts), net |-> Len(net)]
    /\ UNCHANGED << failures, pc, encryptedData, uploadURLsTaken, hasStaticThumbnail, partURLs, streamPos,
                    index, partData, completedParts, req, attempt, net, err,
                    uploadResult >>

\* A multipart upload that starts one chunk later than uploadToBucket's.
UseMultipartAboveFive(d) ==
    d.kind = "stream" /\ d.chunkCount > multipartChunksPerPart

\* The condition of uploadToBucket for a multipart upload.
UseMultipart(d) ==
    d.kind = "stream" /\ d.chunkCount >= multipartChunksPerPart

uploadPartCount(d) == Ceil(d.chunkCount, multipartChunksPerPart)

\* abortIfCancelled(), then uploadToBucket up to its first await.
StartUploadToBucket ==
    /\ pc = "uploadToBucket"
    /\ IF cancelled
         THEN Throw(UPLOAD_CANCELLED) /\ UNCHANGED net
         ELSE IF UseMultipart(encryptedData)
                THEN /\ pc' = "fetchMultipartUploadURLs"
                     /\ net' = Append(net, NetEvent("fetchMultipartUploadURLs",
                                    uploadPartCount(encryptedData), << >>, << >>, ""))
                     /\ UNCHANGED err
                ELSE /\ pc' = "getFileUploadURL"
                     /\ UNCHANGED << net, err >>
    /\ UNCHANGED << failures, cancelled, encryptedData, uploadURLsTaken, hasStaticThumbnail, partURLs,
                    streamPos, index, partData, completedParts, req, attempt,
                    uploadResult, cancelAt >>

\* A loop that does not poll the flag between two parts.
LoopTopUnchecked(idx, n) ==
    IF idx < n
      THEN pc' = "nextMultipartUploadPart" /\ UNCHANGED err
      ELSE pc' = "finalRead" /\ UNCHANGED err

\* The head of the loop over partURLs.entries() for loop index idx of n part
\* URLs: abortIfCancelled(), then the read of the next part; after the loop,
\* the read that must find the stream done.
LoopTop(idx, n) ==
    IF idx < n
      THEN IF cancelled
             THEN Throw(UPLOAD_CANCELLED)
             ELSE pc' = "nextMultipartUploadPart" /\ UNCHANGED err
      ELSE pc' = "finalRead" /\ UNCHANGED err

\* The numbers of part URLs the backend may answer a request for n with.
PartURLAnswers(n) == {m \in {n - 1, n, n + 1} : m >= 0}

\* fetchMultipartUploadURLs returns (or fails), and the loop starts.
FetchMultipartUploadURLsReturn ==
    /\ pc = "fetchMultipartUploadURLs"
    /\ \/ /\ Throw(RequestFailed)
          /\ UNCHANGED partURLs
       \/ \E n \in PartURLAnswers(uploadPartCount(encryptedData)) :
             /\ partURLs' = n
             /\ LoopTop(0, n)
    /\ UNCHANGED << failures, cancelled, encryptedData, uploadURLsTaken, hasStaticThumbnail, streamPos,
                    index, partData, completedParts, req, attempt, net,
                    uploadResult, cancelAt >>

\* A loop that reads one chunk too many into a part.
PartChunkCountOffByOne(pos, count) ==
    Min(multipartChunksPerPart + 1, count - pos)

\* The number of chunks nextMultipartUploadPart reads when pos chunks of
\* count have been read: up to multipartChunksPerPart, fewer at the end.
PartChunkCount(pos, count) == Min(multipartChunksPerPart, count - pos)

\* nextMultipartUploadPart: the next part's bytes; the PUT goes to the retrier.
NextMultipartUploadPart ==
    /\ pc = "nextMultipartUploadPart"
    /\ LET k == PartChunkCount(streamPos, encryptedData.chunkCount)
       IN  /\ partData' = Chunks(streamPos + 1, streamPos + k)
           /\ streamPos' = streamPos + k
    /\ req' = "part"
    /\ attempt' = 0
    /\ pc' = "attempt"
    /\ UNCHANGED << failures, cancelled, encryptedData, uploadURLsTaken, hasStaticThumbnail, partURLs,
                    index, completedParts, net, err, uploadResult, cancelAt >>

\* The request the retrier issues for req.
Request(r) ==
    CASE r = "part" ->
           NetEvent("putFilePart", index + 1, partData, completedParts, "")
      [] r = "complete" ->
           NetEvent("completeMultipartUpload", 0, << >>, completedParts, "")
      [] r = "file" ->
           NetEvent("putFile", 0, Chunks(1, streamPos), completedParts, "")
      [] OTHER ->
           NetEvent("putThumbnail", 0, << >>, completedParts, "")

\* A retrier that does not poll the flag.
AttemptNeverAborts == FALSE

\* Whether the retrier's attempt goes out: abortIfCancelled() comes first.
AttemptAborts == cancelled

\* One attempt of createAbortableRetryEnsuringHTTPOk: abortIfCancelled(),
\* then the request.
RetrierAttempt ==
    /\ pc = "attempt"
    /\ IF AttemptAborts
         THEN Throw(UPLOAD_CANCELLED) /\ UNCHANGED net
         ELSE /\ net' = Append(net, Request(req))
              /\ pc' = "await"
              /\ UNCHANGED err
    /\ UNCHANGED << failures, cancelled, encryptedData, uploadURLsTaken, hasStaticThumbnail, partURLs,
                    streamPos, index, partData, completedParts, req, attempt,
                    uploadResult, cancelAt >>

\* The loop index pushed instead of the part number.
CompletedPartZeroBased(idx, tag) == [partNumber |-> idx, eTag |-> tag]

\* The entry uploadStreamUsingMultipart pushes for the part of loop index idx.
CompletedPart(idx, tag) == [partNumber |-> idx + 1, eTag |-> tag]

\* The part's PUT returned 2xx with integrity tag `tag` ("": none).
PartPutReturned(tag) ==
    /\ req = "part"
    /\ IF tag = ""
         THEN /\ Throw(eTagMissing)
              /\ UNCHANGED << completedParts, index, net >>
         ELSE /\ completedParts' = Append(completedParts, CompletedPart(index, tag))
              /\ index' = index + 1
              /\ net' = Append(net, NetEvent("eTag", index + 1, << >>,
                                             completedParts, tag))
              /\ LoopTop(index + 1, partURLs)
    /\ UNCHANGED << req, attempt, failures >>

\* The completion call returned 2xx: uploadStreamUsingMultipart returns and
\* uploadToBucket asks for the thumbnail's URL.
CompleteReturned ==
    /\ req = "complete"
    /\ pc' = "getThumbnailUploadURL"
    /\ UNCHANGED << completedParts, index, net, err, req, attempt, failures >>

\* A single PUT after which postFile is called at once.
FilePutThenPostFile ==
    /\ req = "file"
    /\ pc' = "postFile"
    /\ net' = Append(net, NetEvent("postFile", 0, << >>, completedParts, ""))
    /\ UNCHANGED << completedParts, index, err, req, attempt, failures >>

\* The single PUT of the file returned 2xx.
FilePutReturned ==
    /\ req = "file"
    /\ pc' = "getThumbnailUploadURL"
    /\ UNCHANGED << completedParts, index, net, err, req, attempt, failures >>

\* The thumbnail's PUT returned 2xx: uploadToBucket returns, upload() calls
\* abortIfCancelled() and then postFile.
ThumbnailPutReturned ==
    /\ req = "thumbnail"
    /\ IF cancelled
         THEN Throw(UPLOAD_CANCELLED) /\ UNCHANGED net
         ELSE /\ pc' = "postFile"
              /\ net' = Append(net, NetEvent("postFile", 0, << >>,
                                             completedParts, ""))
              /\ UNCHANGED err
    /\ UNCHANGED << completedParts, index, req, attempt, failures >>

\* The attempt failed (a network error, or ensureOk on a non-2xx response):
\* abortIfNeeded lets it pass, and the retrier tries again or gives up.
AttemptFailed ==
    /\ failures < MaxFailures
    /\ failures' = failures + 1
    /\ IF attempt < RetryLimit
         THEN /\ attempt' = attempt + 1
              /\ pc' = "attempt"
              /\ UNCHANGED err
         ELSE /\ Throw(RequestFailed)
              /\ UNCHANGED attempt
    /\ UNCHANGED << completedParts, index, net, req >>

\* The response to the request in flight.
RetrierResponse ==
    /\ pc = "await"
    /\ \/ \E tag \in ETags \cup {""} : PartPutReturned(tag)
       \/ CompleteReturned
       \/ FilePutReturned
       \/ ThumbnailPutReturned
       \/ AttemptFailed
    /\ UNCHANGED << cancelled, encryptedData, uploadURLsTaken, hasStaticThumbnail, partURLs,
                    streamPos, partData, uploadResult, cancelAt >>

\* After the loop: the stream must be done, then the completion call.
FinalRead ==
    /\ pc = "finalRead"
    /\ IF streamPos < encryptedData.chunkCount
         THEN /\ streamPos' = streamPos + 1
              /\ Throw(MoreChunks)
              /\ UNCHANGED << req, attempt >>
         ELSE /\ req' = "complete"
              /\ attempt' = 0
              /\ pc' = "attempt"
              /\ UNCHANGED << streamPos, err >>
    /\ UNCHANGED << failures, cancelled, encryptedData, uploadURLsTaken, hasStaticThumbnail, partURLs,
                    index, partData, completedParts, net, uploadResult,
                    cancelAt >>

\* The single PUT: readEntireStream (for a stream), then a URL from the pool.
GetFileUploadURL ==
    /\ pc = "getFileUploadURL"
    /\ streamPos' = encryptedData.chunkCount
    /\ \/ /\ uploadURLsTaken' = Append(uploadURLsTaken, "file")
          /\ req' = "file"
          /\ attempt' = 0
          /\ pc' = "attempt"
          /\ UNCHANGED err
       \/ /\ Throw(NoUploadURL)
          /\ UNCHANGED << req, attempt, uploadURLsTaken >>
    /\ UNCHANGED << failures, cancelled, encryptedData, hasStaticThumbnail, partURLs,
                    index, partData, completedParts, net, uploadResult,
                    cancelAt >>

\* A URL from the pool for the thumbnail.
GetThumbnailUploadURL ==
    /\ pc = "getThumbnailUploadURL"
    /\ \/ /\ uploadURLsTaken' = Append(uploadURLsTaken, "thumbnail")
          /\ req' = "thumbnail"
          /\ attempt' = 0
          /\ pc' = "attempt"
          /\ UNCHANGED err
       \/ /\ Throw(NoUploadURL)
          /\ UNCHANGED << req, attempt, uploadURLsTaken >>
    /\ UNCHANGED << failures, cancelled, encryptedData, hasStaticThumbnail, partURLs,
                    streamPos, index, partData, completedParts, net,
                    uploadResult, cancelAt >>

\* postFile returns the file, or fails.
PostFileReturn ==
    /\ pc = "postFile"
    /\ \/ /\ uploadResult' = IF hasStaticThumbnail
                                THEN "uploadedWithStaticThumbnail"
                                ELSE "uploaded"
          /\ pc' = "done"
          /\ UNCHANGED err
       \/ \E e \in {RequestFailed, FILE_TOO_LARGE} :
             /\ Throw(e)
             /\ UNCHANGED uploadResult
    /\ UNCHANGED << failures, cancelled, encryptedData, uploadURLsTaken, hasStaticThumbnail, partURLs,
                    streamPos, index, partData, completedParts, req, attempt,
                    net, cancelAt >>

\* Whether handleUploadError(e) may throw instead of returning the error
\* (preFetchUploadURLs calls it for that effect alone).
handleUploadErrorThrows(e) ==
    IF e = UPLOAD_CANCELLED THEN {TRUE, FALSE} ELSE {FALSE}

\* A catch block without the case for the missing eTag.
CatchResultWithoutBlocked(e) ==
    CASE e = FILE_TOO_LARGE -> "largerThanAvailableStorage"
      [] OTHER -> "failed"

\* The switch of upload()'s catch block over the handled error's message.
CatchResult(e) ==
    CASE e = eTagMissing -> "blocked"
      [] e = FILE_TOO_LARGE -> "largerThanAvailableStorage"
      [] OTHER -> "failed"

\* The catch block of upload().
Catch ==
    /\ pc = "catch"
    /\ \E throws \in handleUploadErrorThrows(err) :
          IF throws
            THEN pc' = "rejected" /\ UNCHANGED uploadResult
            ELSE pc' = "done" /\ uploadResult' = CatchResult(err)
    /\ UNCHANGED << failures, cancelled, encryptedData, uploadURLsTaken, hasStaticThumbnail, partURLs,
                    streamPos, index, partData, completedParts, req, attempt,
                    net, err, cancelAt >>

(***************************************************************************)
(* UploadService: the pool of pre-signed upload URLs                       *)
(***************************************************************************)
\* The concurrent users of the service: asset pipelines calling
\* getUploadURL, the upload manager calling setFileCount.
Callers == {"a", "b"}

\* Calls of getUploadURL and setFileCount in one run.
MaxCalls == 3

\* The file counts setFileCount is given.
FileCounts == {1, 2}

\* The answers fetchUploadURLs may give: no URL, one, two, and the same URL
\* twice.
URLBatches == {<< >>, <<"u1">>, <<"u2", "u3">>, <<"u4", "u4">>}

Idle == [pc |-> "idle", op |-> "none", awaiting |-> 0, outcome |-> "none"]

\* The service as constructed, with no caller in it.
InitPool ==
    /\ uploadURLs = << >>
    /\ pendingUploadCount = 0
    /\ activeUploadURLRefill = 0
    /\ refills = << >>
    /\ callers = [c \in Callers |-> Idle]
    /\ calls = 0

\* The refill requests on the network: made and not yet answered.
InFlight == {i \in 1..Len(refills) : refills[i].state = "pending"}

\* A refill has settled and callers that awaited it have yet to run to the
\* end of their calls.  Their continuations are promise jobs, queued by the
\* settling and run before the event loop hands control to anything else.
JobsQueued ==
    \E c \in Callers :
        \/ callers[c].pc = "resumed"
        \/ /\ callers[c].pc = "awaitRefill"
           /\ refills[callers[c].awaiting].state # "pending"

\* A refill per caller: the promise held is not looked at.
StartsRefillAlways(active) == active = active

\* refillUploadURLs starts a request only when it holds no promise.
StartsRefill(active) == active = 0

\* What a call adds to the getUploadURL calls awaiting a refill.
Getter(op) == IF op = "getUploadURL" THEN 1 ELSE 0

\* refillUploadURLs up to its await, called by c for op: it starts
\* _refillUploadURLs() unless a promise is held, and awaits the promise held.
\* The record of a refill counts the getUploadURL calls that await it.
refillUploadURLs(c, op, count) ==
    /\ IF StartsRefill(activeUploadURLRefill)
         THEN /\ refills' = Append(refills, [count |-> count, state |-> "pending",
                                              duplicates |-> FALSE,
                                              getters |-> Getter(op),
                                              pushed |-> 0])
              /\ activeUploadURLRefill' = Len(refills) + 1
              /\ callers' = [callers EXCEPT ![c] =
                    [pc |-> "awaitRefill", op |-> op,
                     awaiting |-> Len(refills) + 1, outcome |-> "none"]]
         ELSE /\ callers' = [callers EXCEPT ![c] =
                    [pc |-> "awaitRefill", op |-> op,
                     awaiting |-> activeUploadURLRefill, outcome |-> "none"]]
              /\ refills' = [refills EXCEPT
                    ![activeUploadURLRefill].getters = @ + Getter(op)]
              /\ UNCHANGED activeUploadURLRefill

\* A pop that takes a URL too many off the pool.
PoppedTwo(urls) ==
    IF Len(urls) < 2 THEN << >> ELSE SubSeq(urls, 1, Len(urls) - 2)

\* uploadURLs.pop(), and the throw when there is none.
PopOutcome(urls) ==
    IF urls = << >> THEN "Failed to obtain upload URL" ELSE urls[Len(urls)]

Popped(urls) == IF urls = << >> THEN urls ELSE SubSeq(urls, 1, Len(urls) - 1)

\* Some URL is at two places of the pool.
SomeURLTwice(urls) ==
    \E i, j \in 1..Len(urls) : i # j /\ urls[i] = urls[j]

\* ensureUniqueUploadURLs never throws.
NeverDuplicates(urls) == FALSE

\* ensureUniqueUploadURLs throws
HasDuplicates(urls) ==
    Len(urls) # Cardinality({urls[i] : i \in 1..Len(urls)})

\* getUploadURL up to its first await, or to its end when it needs no refill.
GetUploadURL(c) ==
    /\ callers[c].pc = "idle"
    /\ ~JobsQueued
    /\ calls < MaxCalls
    /\ calls' = calls + 1
    /\ IF uploadURLs = << >> /\ pendingUploadCount # 0
         THEN /\ refillUploadURLs(c, "getUploadURL", pendingUploadCount)
              /\ UNCHANGED uploadURLs
         ELSE /\ callers' = [callers EXCEPT ![c] =
                    [Idle EXCEPT !.outcome = PopOutcome(uploadURLs)]]
              /\ uploadURLs' = Popped(uploadURLs)
              /\ UNCHANGED << refills, activeUploadURLRefill >>
    /\ UNCHANGED pendingUploadCount

\* setFileCount up to the await of preFetchUploadURLs.
SetFileCount(c, fileCount) ==
    /\ callers[c].pc = "idle"
    /\ ~JobsQueued
    /\ calls < MaxCalls
    /\ calls' = calls + 1
    /\ pendingUploadCount' = fileCount
    /\ refillUploadURLs(c, "setFileCount", fileCount)
    /\ UNCHANGED uploadURLs

\* reducePendingUploadCount, called once a file is done.
ReducePendingUploadCount ==
    /\ pendingUploadCount > 0
    /\ ~JobsQueued
    /\ pendingUploadCount' = pendingUploadCount - 1
    /\ UNCHANGED << uploadURLs, activeUploadURLRefill, refills, callers, calls >>

\* The backend answers refill request i: _refillUploadURLs pushes the URLs
\* and its promise fulfils, or the request fails and the promise rejects.
\* The record of the refill notes how many URLs it pushed and whether it
\* left the pool with a URL twice.
RefillSettles(i) ==
    /\ i \in InFlight
    /\ ~JobsQueued
    /\ \/ \E urls \in URLBatches :
             /\ uploadURLs' = uploadURLs \o urls
             /\ refills' = [refills EXCEPT ![i].state = "fulfilled",
                                           ![i].pushed = Len(urls),
                                           ![i].duplicates =
                                               SomeURLTwice(uploadURLs \o urls)]
       \/ /\ refills' = [refills EXCEPT ![i].state = "rejected"]
          /\ UNCHANGED uploadURLs
    /\ UNCHANGED << pendingUploadCount, activeUploadURLRefill, callers, calls >>

\* The callers awaiting promise i resume, one after the other with nothing
\* in between (their reactions are queued together): each runs the finally
\* block of refillUploadURLs.
RefillWaitersResume(i) ==
    /\ i \in 1..Len(refills)
    /\ refills[i].state \in {"fulfilled", "rejected"}
    /\ \E c \in Callers : callers[c].pc = "awaitRefill" /\ callers[c].awaiting = i
    /\ activeUploadURLRefill' = 0
    /\ callers' = [c \in Callers |->
          IF callers[c].pc = "awaitRefill" /\ callers[c].awaiting = i
            THEN [callers[c] EXCEPT !.pc = "resumed"]
            ELSE callers[c]]
    /\ UNCHANGED << uploadURLs, pendingUploadCount, refills, calls >>

\* getUploadURL after its await: the refill's error, or
\* ensureUniqueUploadURLs and the pop.
GetUploadURLResumes(c) ==
    /\ callers[c].pc = "resumed"
    /\ callers[c].op = "getUploadURL"
    /\ IF refills[callers[c].awaiting].state = "rejected"
         THEN /\ callers' = [callers EXCEPT ![c] =
                    [Idle EXCEPT !.outcome = "refill failed"]]
              /\ UNCHANGED uploadURLs
         ELSE IF HasDuplicates(uploadURLs)
                THEN /\ callers' = [callers EXCEPT ![c] =
                           [Idle EXCEPT !.outcome = "Duplicate upload URLs detected"]]
                     /\ UNCHANGED uploadURLs
                ELSE /\ callers' = [callers EXCEPT ![c] =
                           [Idle EXCEPT !.outcome = PopOutcome(uploadURLs)]]
                     /\ uploadURLs' = Popped(uploadURLs)
    /\ UNCHANGED << pendingUploadCount, activeUploadURLRefill, refills, calls >>

\* preFetchUploadURLs after its await: a failed refill goes to
\* handleUploadError, which may throw; then ensureUniqueUploadURLs.
SetFileCountResumes(c) ==
    /\ callers[c].pc = "resumed"
    /\ callers[c].op = "setFileCount"
    /\ \E outcome \in
            (IF refills[callers[c].awaiting].state = "rejected"
               THEN {"refill failed"} ELSE {})
            \cup {IF HasDuplicates(uploadURLs)
                    THEN "Duplicate upload URLs detected" ELSE "returned"} :
          callers' = [callers EXCEPT ![c] = [Idle EXCEPT !.outcome = outcome]]
    /\ UNCHANGED << uploadURLs, pendingUploadCount, activeUploadURLRefill,
                    refills, calls >>

NextPool ==
    \/ \E c \in Callers : GetUploadURL(c) /\ UNCHANGED << uploadVars, metaVars, otherVars >>
    \/ \E c \in Callers, n \in FileCounts :
          SetFileCount(c, n) /\ UNCHANGED << uploadVars, metaVars, otherVars >>
    \/ ReducePendingUploadCount /\ UNCHANGED << uploadVars, metaVars, otherVars >>
    \/ \E i \in 1..Len(refills) : RefillSettles(i) /\ UNCHANGED << uploadVars, metaVars, otherVars >>
    \/ \E i \in 1..Len(refills) : RefillWaitersResume(i) /\ UNCHANGED << uploadVars, metaVars, otherVars >>
    \/ \E c \in Callers : GetUploadURLResumes(c) /\ UNCHANGED << uploadVars, metaVars, otherVars >>
    \/ \E c \in Callers : SetFileCountResumes(c) /\ UNCHANGED << uploadVars, metaVars, otherVars >>

(***************************************************************************)
(* UploadService with logout, and the asset pipelines that hold its URLs   *)
(***************************************************************************)
\* Calls of logout in one run.
MaxLogouts == 1

\* Calls of getUploadURL and setFileCount in one run with logout.
MaxServiceCalls == 2

\* How the upload of an asset ends.
UploadEndings == {"uploaded", "failed", "cancelled"}

\* Whether what a call of the service ended with is an upload URL.
IsUploadURL(outcome) ==
    \E urls \in URLBatches : \E i \in 1..Len(urls) : urls[i] = outcome

\* The service as constructed, and pipelines that hold no URL.
InitService ==
    /\ InitPool
    /\ held = [c \in Callers |-> << >>]
    /\ logouts = 0
    /\ stale = {}

\* The pipeline of c keeps the URL its call of getUploadURL returned.
KeepsUploadURL(c) ==
    held' = IF IsUploadURL(callers'[c].outcome)
              THEN [held EXCEPT ![c] = Append(@, callers'[c].outcome)]
              ELSE held

\* logout(), called while requests may be in flight and pipelines running.
Logout ==
    /\ ~JobsQueued
    /\ logouts < MaxLogouts
    /\ logouts' = logouts + 1
    /\ uploadURLs' = << >>
    /\ pendingUploadCount' = 0
    /\ activeUploadURLRefill' = 0
    /\ stale' = stale \cup InFlight
    /\ UNCHANGED << refills, callers, calls, held >>

\* A pipeline that hands its URLs back to the pool when it ends.
PutBack(urls, heldURLs) == urls \o heldURLs

\* The pool after a pipeline that held heldURLs has ended: uploadToBucket
\* and the catch block of upload() do not touch it.
PoolAfterUpload(urls, heldURLs) == urls

\* The upload of c's asset ends: uploaded, failed, or cancelled.  What the
\* pipeline's last call of the service ended with gives way to how the
\* upload ended.
UploadEnds(c, how) ==
    /\ ~JobsQueued
    /\ callers[c].pc = "idle"
    /\ held[c] # << >>
    /\ uploadURLs' = PoolAfterUpload(uploadURLs, held[c])
    /\ held' = [held EXCEPT ![c] = << >>]
    /\ callers' = [callers EXCEPT ![c].outcome = how]
    /\ UNCHANGED << pendingUploadCount, activeUploadURLRefill, refills,
                    calls, logouts, stale >>

NextService ==
    \/ \E c \in Callers :
          /\ calls < MaxServiceCalls
          /\ GetUploadURL(c)
          /\ KeepsUploadURL(c)
          /\ UNCHANGED << logouts, stale, exceptService >>
    \/ \E c \in Callers, n \in FileCounts :
          /\ calls < MaxServiceCalls
          /\ SetFileCount(c, n)
          /\ UNCHANGED << serviceVars, exceptService >>
    \/ ReducePendingUploadCount /\ UNCHANGED << serviceVars, exceptService >>
    \/ \E i \in 1..Len(refills) :
          RefillSettles(i) /\ UNCHANGED << serviceVars, exceptService >>
    \/ \E i \in 1..Len(refills) :
          RefillWaitersResume(i) /\ UNCHANGED << serviceVars, exceptService >>
    \/ \E c \in Callers :
          /\ GetUploadURLResumes(c)
          /\ KeepsUploadURL(c)
          /\ UNCHANGED << logouts, stale, exceptService >>
    \/ \E c \in Callers :
          SetFileCountResumes(c) /\ UNCHANGED << serviceVars, exceptService >>
    \/ Logout /\ UNCHANGED exceptService
    \/ \E c \in Callers, how \in UploadEndings :
          UploadEnds(c, how) /\ UNCHANGED exceptService

\* No pipeline holds a URL and logout was never called.
ServiceAlone ==
    /\ held = [c \in Callers |-> << >>]
    /\ logouts = 0
    /\ stale = {}

(***************************************************************************)
(* MemoriesCacheService: updateCache and queueUpdateCache                  *)
(***************************************************************************)
\* The concurrent callers of updateCache.
UpdateCallers == {"m1", "m2"}

\* Calls of updateCache, and of queueUpdateCache from outside the service.
MaxUpdateCalls == 3
MaxQueueCalls == 2

\* The awaits of the recomputation, in order.
BodyPcs ==
    {"readCacheFromDisk", "calcNow", "calcNext", "getCachePath",
     "scheduleNotifications", "writeAsBytes", "cacheUpdated"}

\* A caller's record: where it is, and which call of updateCache this is.
NoCacheUpdate == [pc |-> "idle", forced |-> FALSE, exit |-> "none", call |-> 0]

\* The caller is between the start and the end of the recomputation.
InBody(c) == cacheUpdates[c].pc \in BodyPcs

\* A new service; the preference may have been stored by an earlier run, and
\* the cache may be older than kMemoriesUpdateFrequency.
InitMemories ==
    /\ shouldUpdate = FALSE
    /\ shouldUpdateCachePref \in {"null", "true", "false"}
    /\ isUpdatingMemories = FALSE
    /\ timeToUpdateCache \in BOOLEAN
    /\ memoriesUpdateLock = << >>
    /\ cacheUpdates = [c \in UpdateCallers |-> NoCacheUpdate]
    /\ updateCalls = 0
    /\ queueCalls = 0
    /\ delayedCheck = TRUE
    /\ queuedWhileUpdating = FALSE

\* _prefs.getBool(_shouldUpdateCacheKey) ?? _shouldUpdate
PrefOrShouldUpdate ==
    IF shouldUpdateCachePref = "null"
      THEN shouldUpdate
      ELSE shouldUpdateCachePref = "true"

\* _shouldUpdate after _checkIfTimeToUpdateCache, with smart memories enabled.
CheckedShouldUpdate == timeToUpdateCache \/ PrefOrShouldUpdate

\* The preference after _checkIfTimeToUpdateCache.
CheckedPref == IF timeToUpdateCache THEN "true" ELSE shouldUpdateCachePref

\* A request made while a recomputation is under way.
NotedIfUpdating == queuedWhileUpdating \/ isUpdatingMemories

\* queueUpdateCache(), called by the rest of the application.
QueueUpdateCache ==
    /\ queueCalls < MaxQueueCalls
    /\ queueCalls' = queueCalls + 1
    /\ shouldUpdate' = TRUE
    /\ shouldUpdateCachePref' = "true"
    /\ queuedWhileUpdating' = NotedIfUpdating
    /\ UNCHANGED << isUpdatingMemories, timeToUpdateCache, memoriesUpdateLock,
                    cacheUpdates, updateCalls, delayedCheck >>

\* The callback the constructor delays by _kCacheUpdateDelay:
\* _checkIfTimeToUpdateCache().
DelayedCheck ==
    /\ delayedCheck
    /\ delayedCheck' = FALSE
    /\ \E enableSmartMemories \in BOOLEAN :
          IF enableSmartMemories
            THEN /\ shouldUpdate' = CheckedShouldUpdate
                 /\ shouldUpdateCachePref' = CheckedPref
                 /\ queuedWhileUpdating' =
                        IF timeToUpdateCache THEN NotedIfUpdating
                                             ELSE queuedWhileUpdating
            ELSE UNCHANGED << shouldUpdate, shouldUpdateCachePref,
                              queuedWhileUpdating >>
    /\ UNCHANGED << isUpdatingMemories, timeToUpdateCache, memoriesUpdateLock,
                    cacheUpdates, updateCalls, queueCalls >>

\* kMemoriesUpdateFrequency has passed since the last update of the cache.
TimePasses ==
    /\ ~timeToUpdateCache
    /\ timeToUpdateCache' = TRUE
    /\ UNCHANGED << shouldUpdate, shouldUpdateCachePref, isUpdatingMemories,
                    memoriesUpdateLock, cacheUpdates, updateCalls, queueCalls,
                    delayedCheck, queuedWhileUpdating >>

\* A lock nobody waits for.
NeverWaits(lock) == FALSE

\* Whether synchronized() has to wait: the lock is held, or others wait.
MustWait(lock) == lock # << >>

\* The lock's chain without c.
Released(lock, c) == SelectSeq(lock, LAMBDA x : x # c)

\* The function given to synchronized() starts for c, with _shouldUpdate
\* equal to should and the lock's chain equal to lock: it returns at once,
\* or sets _isUpdatingMemories and awaits _readCacheFromDisk.
StartBody(c, forced, should, lock, call) ==
    IF ~should /\ ~forced
      THEN /\ cacheUpdates' =
                 [cacheUpdates EXCEPT
                     ![c] = [pc |-> "idle", forced |-> FALSE,
                             exit |-> "noUpdateNeeded", call |-> call]]
           /\ memoriesUpdateLock' = Released(lock, c)
           /\ UNCHANGED << isUpdatingMemories, queuedWhileUpdating >>
      ELSE /\ isUpdatingMemories' = TRUE
           /\ cacheUpdates' =
                 [cacheUpdates EXCEPT
                     ![c] = [pc |-> "readCacheFromDisk", forced |-> forced,
                             exit |-> "none", call |-> call]]
           /\ memoriesUpdateLock' = lock
           /\ queuedWhileUpdating' = FALSE

\* updateCache(forced) is called: the checks of the settings,
\* _checkIfTimeToUpdateCache(), and synchronized(), whose function starts at
\* once when the lock is free.
UpdateCacheCall(c, forced) ==
    /\ cacheUpdates[c].pc = "idle"
    /\ updateCalls < MaxUpdateCalls
    /\ updateCalls' = updateCalls + 1
    /\ \E showAnyMemories \in BOOLEAN, enableSmartMemories \in BOOLEAN :
          IF ~showAnyMemories \/ ~enableSmartMemories
            THEN /\ cacheUpdates' =
                       [cacheUpdates EXCEPT
                           ![c] = [pc |-> "idle", forced |-> FALSE,
                                   exit |-> IF showAnyMemories
                                              THEN "fillers"
                                              ELSE "notShown",
                                   call |-> updateCalls + 1]]
                 /\ UNCHANGED << shouldUpdate, shouldUpdateCachePref,
                                 isUpdatingMemories, memoriesUpdateLock,
                                 queuedWhileUpdating >>
            ELSE /\ shouldUpdate' = CheckedShouldUpdate
                 /\ shouldUpdateCachePref' = CheckedPref
                 /\ IF MustWait(memoriesUpdateLock)
                      THEN /\ memoriesUpdateLock' =
                                 Append(memoriesUpdateLock, c)
                           /\ cacheUpdates' =
                                 [cacheUpdates EXCEPT
                                     ![c] = [pc |-> "waiting",
                                             forced |-> forced,
                                             exit |-> "none",
                                             call |-> updateCalls + 1]]
                           /\ isUpdatingMemories' = isUpdatingMemories
                           /\ queuedWhileUpdating' =
                                 IF timeToUpdateCache THEN NotedIfUpdating
                                                      ELSE queuedWhileUpdating
                      ELSE StartBody(c, forced, CheckedShouldUpdate,
                                     Append(memoriesUpdateLock, c),
                                     updateCalls + 1)
    /\ UNCHANGED << timeToUpdateCache, queueCalls, delayedCheck >>

\* The lock passes to the caller that waited longest, and the function it
\* gave to synchronized() starts.
LockGranted(c) ==
    /\ cacheUpdates[c].pc = "waiting"
    /\ Head(memoriesUpdateLock) = c
    /\ StartBody(c, cacheUpdates[c].forced, shouldUpdate, memoriesUpdateLock,
                 cacheUpdates[c].call)
    /\ UNCHANGED << shouldUpdate, shouldUpdateCachePref, timeToUpdateCache,
                    updateCalls, queueCalls, delayedCheck >>

\* The function leaves through the finally block and the lock is released.
ExitBody(c, how) ==
    /\ isUpdatingMemories' = FALSE
    /\ memoriesUpdateLock' = Released(memoriesUpdateLock, c)
    /\ cacheUpdates' =
          [cacheUpdates EXCEPT
              ![c] = [pc |-> "idle", forced |-> FALSE, exit |-> how,
                      call |-> @.call]]

\* The recomputation goes on to its next await.
GoOn(c, next) ==
    /\ cacheUpdates' = [cacheUpdates EXCEPT ![c].pc = next]
    /\ UNCHANGED << isUpdatingMemories, memoriesUpdateLock >>

\* What the recomputation awaits returns.
BodyReturns(c) ==
    /\ InBody(c)
    /\ LET at == cacheUpdates[c].pc
       IN  CASE at = "readCacheFromDisk" ->
                  GoOn(c, "calcNow")
                  /\ UNCHANGED << shouldUpdate, shouldUpdateCachePref,
                                  timeToUpdateCache >>
             [] at = "calcNow" ->
                  /\ \/ ExitBody(c, "empty")
                     \/ GoOn(c, "calcNext")
                  /\ UNCHANGED << shouldUpdate, shouldUpdateCachePref,
                                  timeToUpdateCache >>
             [] at = "calcNext" ->
                  GoOn(c, "getCachePath")
                  /\ UNCHANGED << shouldUpdate, shouldUpdateCachePref,
                                  timeToUpdateCache >>
             [] at = "getCachePath" ->
                  GoOn(c, "scheduleNotifications")
                  /\ UNCHANGED << shouldUpdate, shouldUpdateCachePref,
                                  timeToUpdateCache >>
             [] at = "scheduleNotifications" ->
                  GoOn(c, "writeAsBytes")
                  /\ UNCHANGED << shouldUpdate, shouldUpdateCachePref,
                                  timeToUpdateCache >>
             [] at = "writeAsBytes" ->
                  \* _cacheUpdated() up to its await
                  /\ GoOn(c, "cacheUpdated")
                  /\ shouldUpdate' = FALSE
                  /\ shouldUpdateCachePref' = "false"
                  /\ timeToUpdateCache' = FALSE
             [] OTHER ->
                  ExitBody(c, "completed")
                  /\ UNCHANGED << shouldUpdate, shouldUpdateCachePref,
                                  timeToUpdateCache >>
    /\ UNCHANGED << updateCalls, queueCalls, delayedCheck,
                    queuedWhileUpdating >>

\* What the recomputation awaits throws: the catch block logs the error.
BodyThrows(c) ==
    /\ InBody(c)
    /\ ExitBody(c, "exception")
    /\ UNCHANGED << shouldUpdate, shouldUpdateCachePref, timeToUpdateCache,
                    updateCalls, queueCalls, delayedCheck,
                    queuedWhileUpdating >>

NextMemories ==
    \/ QueueUpdateCache /\ UNCHANGED exceptMemories
    \/ DelayedCheck /\ UNCHANGED exceptMemories
    \/ TimePasses /\ UNCHANGED exceptMemories
    \/ \E c \in UpdateCallers, forced \in BOOLEAN :
          UpdateCacheCall(c, forced) /\ UNCHANGED exceptMemories
    \/ \E c \in UpdateCallers : LockGranted(c) /\ UNCHANGED exceptMemories
    \/ \E c \in UpdateCallers : BodyReturns(c) /\ UNCHANGED exceptMemories
    \/ \E c \in UpdateCallers : BodyThrows(c) /\ UNCHANGED exceptMemories

\* The memories cache is not looked at.
MemoriesAlone ==
    /\ shouldUpdate = FALSE
    /\ shouldUpdateCachePref = "null"
    /\ isUpdatingMemories = FALSE
    /\ timeToUpdateCache = FALSE
    /\ memoriesUpdateLock = << >>
    /\ cacheUpdates = [c \in UpdateCallers |-> NoCacheUpdate]
    /\ updateCalls = 0
    /\ queueCalls = 0
    /\ delayedCheck = FALSE
    /\ queuedWhileUpdating = FALSE

(***************************************************************************)
(* The mutable ("magic") metadata of a file and its interactive updates    *)
(***************************************************************************)
\* A JSON object is a function over Keys; Absent marks a key it does not
\* have. "unknown" is a key written by a newer client.
Keys == {"visibility", "caption", "editedName", "unknown"}

Absent == "(absent)"
Null == "null"
Undefined == "undefined"

EmptyObject == [k \in Keys |-> Absent]

Object1(k, v) == [EmptyObject EXCEPT ![k] = v]

Object2(k1, v1, k2, v2) == [EmptyObject EXCEPT ![k1] = v1, ![k2] = v2]

\* Object.keys(o)
KeysOf(o) == {k \in Keys : o[k] # Absent}

Tiers == {"private", "public"}

\* The updates callers pass as metadataUpdates.
PrivateUpdates ==
    { Object1("visibility", "hidden"),
      Object1("visibility", Null) }

PublicUpdates ==
    { Object1("caption", "x"),
      Object1("editedName", "y"),
      Object2("caption", Null, "editedName", Undefined) }

\* Interactive updates started in one run.
MaxUpdates == 2

Updaters == {"p", "q"}

\* JSON.stringify then JSON.parse: keys whose value is undefined are dropped.
JSONRoundTrip(o) == [k \in Keys |-> IF o[k] = Undefined THEN Absent ELSE o[k]]

\* encryptMetadataJSON: the data of an envelope as the base64 string remote
\* stores; obj is the JSON inside.
encryptMetadataJSON(o) == [enc |-> TRUE, obj |-> JSONRoundTrip(o)]

\* decryptMetadataJSON
decryptMetadataJSON(d) == d.obj

\* The data of an envelope holding the decrypted object.
Decrypted(o) == [enc |-> FALSE, obj |-> o]

\* A file without an envelope for a tier.
NoEnvelope ==
    [present |-> FALSE, version |-> 0, count |-> 0,
     data |-> Decrypted(EmptyObject), header |-> 0]

\* header is the decryption header, new with every encryption.
Envelope(header, version, count, data) ==
    [present |-> TRUE, version |-> version, count |-> count, data |-> data,
     header |-> header]

\* No error was thrown.
NoError == [name |-> "none", res |-> "none"]

\* An error that says nothing of the response.
PlainError(response) == [name |-> "Error", res |-> "none"]

\* What the PUT throws: fetch a TypeError when there is no response, ensureOk
\* an HTTPError holding the response when its status is not 2xx.
ThrownError(response) ==
    IF response = "failed"
      THEN [name |-> "TypeError", res |-> "none"]
      ELSE [name |-> "HTTPError", res |-> response]

\* What is known of an update: its position, the locals of the function,
\* and, for the properties, what it found in the file (seen when it read the
\* existing metadata, built when it read the version), the version sent by
\* the update applied last before it (previous, 0 if none since the sync), and
\* whether the file's envelope was replaced under it (stale).
NoUpdate ==
    [pc |-> "idle", tier |-> "none", metadataUpdates |-> EmptyObject,
     found |-> FALSE, stale |-> FALSE, existingMetadata |-> EmptyObject,
     updatedMetadata |-> EmptyObject, metadataVersion |-> 0,
     header |-> 0, request |-> NoEnvelope, response |-> "none",
     seen |-> NoEnvelope, built |-> NoEnvelope, previous |-> 0,
     result |-> NoEnvelope, error |-> NoError]

\* A file as the last sync left it, the remote holding the same.
InitMeta ==
    /\ \E present \in BOOLEAN :
       LET private == IF present
                        THEN Envelope(10, 1, 2, Decrypted(
                                 Object2("visibility", "archived", "unknown", "z")))
                        ELSE NoEnvelope
           public == IF present
                       THEN Envelope(20, 2, 2, encryptMetadataJSON(
                                Object2("caption", "y", "unknown", "z")))
                       ELSE NoEnvelope
       IN
          /\ magicMetadata = private
          /\ pubMagicMetadata = public
          /\ remote = [private |-> [private EXCEPT !.data = encryptMetadataJSON(@.obj)],
                       public |-> public]
          /\ synced = [private |-> [version |-> private.version,
                                    content |-> private.data.obj],
                       public |-> [version |-> public.version,
                                   content |-> public.data.obj]]
    /\ updaters = [p \in Updaters |-> NoUpdate]
    /\ applied = [t \in Tiers |-> << >>]
    /\ updateCount = 0

\* The updates of tier t under way after the file got another envelope for
\* the tier: the envelope objects they hold on to are no longer the file's.
Replaced(ts) ==
    [p \in Updaters |->
        IF updaters[p].tier \in ts
          THEN [updaters[p] EXCEPT !.stale = TRUE]
          ELSE updaters[p]]

\* withoutNullAndUndefinedValues
withoutNullAndUndefinedValues(o) ==
    [k \in Keys |-> IF o[k] \in {Null, Undefined} THEN Absent ELSE o[k]]

ValidEntriesKeepingNull(metadata) ==
    [k \in Keys |-> IF metadata[k] = Undefined THEN Absent ELSE metadata[k]]

\* validEntries of updateMagicMetadataRequest, as an object
ValidEntries(metadata) ==
    [k \in Keys |-> IF metadata[k] \in {Null, Undefined} THEN Absent
                    ELSE metadata[k]]

\* PublicMagicMetadata.parse: a loose object, unknown keys are kept.
ParsePublicMagicMetadata(o) == o

SpreadExistingWins(a, b) == [k \in Keys |-> IF a[k] # Absent THEN a[k] ELSE b[k]]

\* { ...a, ...b }
Spread(a, b) == [k \in Keys |-> IF b[k] # Absent THEN b[k] ELSE a[k]]

AlwaysEmpty(present, o) == EmptyObject

\* existingMetadata ?? {}
OrEmpty(present, o) == IF present THEN o ELSE EmptyObject

VersionOrZero(envelope) == IF envelope.present THEN envelope.version ELSE 0

\* file.magicMetadata?.version ?? 1
VersionOrOne(envelope) == IF envelope.present THEN envelope.version ELSE 1

NotBumped(version) == version

\* A bump by two.
BumpedTwice(version) == version + 2

\* The version the in-memory envelope gets after a successful write.
BumpedVersion(version) == version + 1

AnyAnswer(response) == response # "failed"

\* ensureOk: the response has a 2xx status.
Succeeded(response) == response = "ok"

\* updateMagicMetadataRequest: the envelope of the request for `metadata`.
updateMagicMetadataRequest(header, metadata, metadataVersion) ==
    LET validEntries == ValidEntries(metadata)
    IN  Envelope(header, metadataVersion, Cardinality(KeysOf(validEntries)),
                 encryptMetadataJSON(validEntries))

\* The version sent by the update of tier t applied last since the sync.
LastApplied(t) ==
    IF applied[t] = << >> THEN 0 ELSE applied[t][Len(applied[t])].version

\* No update has an outcome its caller has yet to take: the caller of an
\* update goes on in the task in which the update settles.
Running == \A p \in Updaters : updaters[p].pc \notin {"returned", "threw"}

\* Updater "q" is used only while "p" is busy.
Starts(p) ==
    /\ Running
    /\ updaters[p].pc = "idle"
    /\ p = "q" => updaters["p"].pc # "idle"
    /\ updateCount < MaxUpdates
    /\ updateCount' = updateCount + 1

\* updateRemotePrivateMagicMetadata up to the PUT: filePrivateMagicMetadata,
\* the merge, the version, the request.
UpdatePrivate(p, metadataUpdates) ==
    /\ Starts(p)
    /\ IF magicMetadata.present /\ magicMetadata.data.enc
         THEN updaters' = [updaters EXCEPT ![p] =
                 [NoUpdate EXCEPT !.pc = "threw", !.tier = "private",
                                  !.metadataUpdates = metadataUpdates,
                                  !.error = PlainError("none")]]
         ELSE LET existingMetadata == magicMetadata.data.obj
                  updatedMetadata ==
                      Spread(OrEmpty(magicMetadata.present, existingMetadata),
                             metadataUpdates)
                  metadataVersion == VersionOrOne(magicMetadata)
              IN  updaters' = [updaters EXCEPT ![p] =
                    [NoUpdate EXCEPT
                       !.pc = "inflight",
                       !.tier = "private",
                       !.metadataUpdates = metadataUpdates,
                       !.found = magicMetadata.present,
                       !.existingMetadata = existingMetadata,
                       !.updatedMetadata = updatedMetadata,
                       !.metadataVersion = metadataVersion,
                       !.header = updateCount',
                       !.request = updateMagicMetadataRequest(
                                       updateCount', updatedMetadata, metadataVersion),
                       !.seen = magicMetadata,
                       !.built = magicMetadata,
                       !.previous = LastApplied("private")]]
    /\ UNCHANGED << magicMetadata, pubMagicMetadata, remote, applied, synced >>

\* The end of decryptPublicMagicMetadata: the value that is hung on the
\* envelope and returned.
DecryptedValue(jsonValue) ==
    ParsePublicMagicMetadata(withoutNullAndUndefinedValues(jsonValue))

\* updateRemotePublicMagicMetadata once decryptPublicMagicMetadata has the
\* JSON of the envelope update u holds: the envelope, if it is still the
\* file's, gets the parsed value as its data, and the update merges, reads
\* the version and builds the request.
PublicRequest(p, u, jsonValue) ==
    LET existingMetadata == DecryptedValue(jsonValue)
        cached == IF u.found /\ ~u.stale
                    THEN [pubMagicMetadata EXCEPT
                             !.data = Decrypted(existingMetadata)]
                    ELSE pubMagicMetadata
        updatedMetadata ==
            Spread(OrEmpty(u.found, existingMetadata), u.metadataUpdates)
        metadataVersion == VersionOrOne(cached)
    IN  /\ pubMagicMetadata' = cached
        /\ updaters' = [updaters EXCEPT ![p] =
              [u EXCEPT !.pc = "inflight",
                        !.existingMetadata = existingMetadata,
                        !.updatedMetadata = updatedMetadata,
                        !.metadataVersion = metadataVersion,
                        !.request = updateMagicMetadataRequest(
                                        u.header, updatedMetadata, metadataVersion),
                        !.built = cached,
                        !.previous = LastApplied("public")]]

\* updateRemotePublicMagicMetadata is called. With the data of the envelope
\* a string it waits for decryptMetadataJSON, holding on to the envelope;
\* otherwise it goes on to the PUT.
UpdatePublic(p, metadataUpdates) ==
    /\ Starts(p)
    /\ LET u == [NoUpdate EXCEPT !.tier = "public",
                                 !.metadataUpdates = metadataUpdates,
                                 !.found = pubMagicMetadata.present,
                                 !.header = updateCount',
                                 !.seen = pubMagicMetadata]
       IN  IF pubMagicMetadata.present /\ pubMagicMetadata.data.enc
             THEN /\ updaters' = [updaters EXCEPT ![p] = [u EXCEPT !.pc = "decrypt"]]
                  /\ UNCHANGED pubMagicMetadata
             ELSE PublicRequest(p, u, pubMagicMetadata.data.obj)
    /\ UNCHANGED << magicMetadata, remote, applied, synced >>

\* decryptMetadataJSON returns to the update.
BuildPublic(p) ==
    /\ Running
    /\ updaters[p].pc = "decrypt"
    /\ PublicRequest(p, updaters[p], decryptMetadataJSON(updaters[p].seen.data))
    /\ UNCHANGED << magicMetadata, remote, applied, synced, updateCount >>

\* The remote takes a write whose version is the one it stores (any, for a
\* tier it stores nothing for).
RemoteAccepts(stored, request) ==
    ~stored.present \/ stored.version = request.version

\* Every PUT goes to /files/public-magic-metadata.
PublicEndpoint(tier) == "public"

\* putFilesPrivateMagicMetadata PUTs to /files/magic-metadata and
\* putFilesPublicMagicMetadata to /files/public-magic-metadata: the tier the
\* remote takes the request for.
Endpoint(tier) == tier

\* The remote handles the PUT of p: it replaces the tier and stores the next
\* version, or rejects the write. The response may be lost on the way back.
RemoteHandles(p) ==
    /\ Running
    /\ updaters[p].pc = "inflight"
    /\ LET u == updaters[p]
           ok == RemoteAccepts(remote[Endpoint(u.tier)], u.request)
       IN  /\ remote' = IF ok
                          THEN [remote EXCEPT ![Endpoint(u.tier)] =
                                  [u.request EXCEPT !.version = @ + 1]]
                          ELSE remote
           /\ \E response \in {IF ok THEN "ok" ELSE "conflict", "failed"} :
                updaters' = [updaters EXCEPT ![p] =
                    [u EXCEPT !.pc = "responded", !.response = response]]
    /\ UNCHANGED << magicMetadata, pubMagicMetadata, applied, synced, updateCount >>

\* The PUT of p never reaches the remote ("failed"), or the remote refuses
\* it with a status that is not about the version ("error").
RequestFails(p) ==
    /\ Running
    /\ updaters[p].pc = "inflight"
    /\ \E response \in {"failed", "error"} :
          updaters' = [updaters EXCEPT ![p] =
              [@ EXCEPT !.pc = "responded", !.response = response]]
    /\ UNCHANGED << magicMetadata, pubMagicMetadata, remote, applied, synced, updateCount >>

\* ensureOk throws: the update ends with the error.
UpdateThrows(p) ==
    /\ Running
    /\ updaters[p].pc = "responded"
    /\ ~Succeeded(updaters[p].response)
    /\ updaters' = [updaters EXCEPT ![p] =
          [@ EXCEPT !.pc = "threw", !.error = ThrownError(updaters[p].response)]]
    /\ UNCHANGED << magicMetadata, pubMagicMetadata, remote, applied, synced, updateCount >>

Applied(p) ==
    [metadataUpdates |-> updaters[p].metadataUpdates,
     version |-> updaters[p].request.version,
     stale |-> updaters[p].stale]

\* updateRemotePrivateMagicMetadata after the PUT: the envelope sent, with
\* the version bumped and the merged metadata as its data, is returned; the
\* caller uses it as the file's private tier from then on.
ReturnPrivate(p) ==
    /\ Running
    /\ updaters[p].pc = "responded"
    /\ Succeeded(updaters[p].response)
    /\ updaters[p].tier = "private"
    /\ LET u == updaters[p]
           updatedMagicMetadata ==
               [u.request EXCEPT
                   !.version = BumpedVersion(u.metadataVersion),
                   !.data = Decrypted(u.updatedMetadata)]
       IN  /\ magicMetadata' = updatedMagicMetadata
           /\ updaters' = [Replaced({"private"}) EXCEPT ![p] =
                 [u EXCEPT !.pc = "returned", !.result = updatedMagicMetadata]]
    /\ applied' = [applied EXCEPT !.private = Append(@, Applied(p))]
    /\ UNCHANGED << pubMagicMetadata, remote, synced, updateCount >>

\* updateRemotePublicMagicMetadata after the PUT: the envelope sent becomes
\* the file's, with its version bumped; then the data is read again.
ApplyPublic(p) ==
    /\ Running
    /\ updaters[p].pc = "responded"
    /\ Succeeded(updaters[p].response)
    /\ updaters[p].tier = "public"
    /\ LET u == updaters[p]
           updatedEnvelope ==
               [u.request EXCEPT !.version = BumpedVersion(u.request.version)]
       IN  /\ pubMagicMetadata' = updatedEnvelope
           /\ updaters' = [Replaced({"public"}) EXCEPT ![p] =
                 [u EXCEPT !.pc = "reread", !.found = TRUE, !.stale = FALSE,
                           !.result = updatedEnvelope]]
    /\ applied' = [applied EXCEPT !.public = Append(@, Applied(p))]
    /\ UNCHANGED << magicMetadata, remote, synced, updateCount >>

\* The second decryptPublicMagicMetadata returns (and mergeMetadata1 runs).
RereadPublic(p) ==
    /\ Running
    /\ updaters[p].pc = "reread"
    /\ LET u == updaters[p]
           data == Decrypted(DecryptedValue(decryptMetadataJSON(u.result.data)))
       IN  /\ pubMagicMetadata' =
                 IF ~u.stale
                   THEN [pubMagicMetadata EXCEPT !.data = data]
                   ELSE pubMagicMetadata
           /\ updaters' = [updaters EXCEPT ![p] =
                 [u EXCEPT !.pc = "returned", !.result = [u.result EXCEPT !.data = data]]]
    /\ UNCHANGED << magicMetadata, remote, applied, synced, updateCount >>

\* The caller of p takes the outcome of the update.
TakeOutcome(p) ==
    /\ updaters[p].pc \in {"returned", "threw"}
    /\ updaters' = [updaters EXCEPT ![p] = NoUpdate]
    /\ UNCHANGED << magicMetadata, pubMagicMetadata, remote, applied, synced,
                    updateCount >>

\* The reconciliation sync: the file's envelopes are replaced by what the
\* remote stores, the private one decrypted. It runs when it has something
\* to bring or to reset, with at most one update under way.
Sync ==
    /\ Running
    /\ \E p \in Updaters : \A q \in Updaters \ {p} : updaters[q].pc = "idle"
    /\ \/ magicMetadata.version # remote.private.version
       \/ pubMagicMetadata.version # remote.public.version
       \/ applied # [t \in Tiers |-> << >>]
    /\ magicMetadata' =
          [remote.private EXCEPT !.data = Decrypted(decryptMetadataJSON(@))]
    /\ pubMagicMetadata' = remote.public
    /\ updaters' = Replaced(Tiers)
    /\ synced' = [t \in Tiers |-> [version |-> remote[t].version,
                                    content |-> remote[t].data.obj]]
    /\ applied' = [t \in Tiers |-> << >>]
    /\ UNCHANGED << remote, updateCount >>

NextMeta ==
    \/ \E p \in Updaters, u \in PrivateUpdates :
          UpdatePrivate(p, u) /\ UNCHANGED << uploadVars, poolVars, otherVars >>
    \/ \E p \in Updaters, u \in PublicUpdates :
          UpdatePublic(p, u) /\ UNCHANGED << uploadVars, poolVars, otherVars >>
    \/ \E p \in Updaters : BuildPublic(p) /\ UNCHANGED << uploadVars, poolVars, otherVars >>
    \/ \E p \in Updaters : RemoteHandles(p) /\ UNCHANGED << uploadVars, poolVars, otherVars >>
    \/ \E p \in Updaters : RequestFails(p) /\ UNCHANGED << uploadVars, poolVars, otherVars >>
    \/ \E p \in Updaters : UpdateThrows(p) /\ UNCHANGED << uploadVars, poolVars, otherVars >>
    \/ \E p \in Updaters : ReturnPrivate(p) /\ UNCHANGED << uploadVars, poolVars, otherVars >>
    \/ \E p \in Updaters : ApplyPublic(p) /\ UNCHANGED << uploadVars, poolVars, otherVars >>
    \/ \E p \in Updaters : RereadPublic(p) /\ UNCHANGED << uploadVars, poolVars, otherVars >>
    \/ \E p \in Updaters : TakeOutcome(p) /\ UNCHANGED << uploadVars, poolVars, otherVars >>
    \/ Sync /\ UNCHANGED << uploadVars, poolVars, otherVars >>

(***************************************************************************)
(* readUploadItem and encryptFileStream                                    *)
(*                                                                         *)
(* A byte of the file is modelled by its position in the file, so that a   *)
(* lost, repeated or reordered byte shows.  The underlying stream hands    *)
(* its bytes over in reads of any length.                                  *)
(***************************************************************************)

\* 4 * 1024 * 1024 in the source, scaled down.
streamEncryptionChunkSize == 3

\* Largest file and largest underlying stream, in bytes.
MaxSize == 7

\* Pulls of the encrypted stream looked at.
MaxPulls == 4

\* Math.ceil(fileSize / streamEncryptionChunkSize)
ChunkCountFloor(size) == size \div streamEncryptionChunkSize

ChunkCountOf(size) == Ceil(size, streamEncryptionChunkSize)

\* The bytes at positions from + 1 .. from + n of the file.
Bytes(from, n) == [i \in 1..n |-> from + i]

\* readUploadItem's result: the size the source declares and the chunk count
\* derived from it.  The stream's own length is the source's to decide.
InitStream ==
    /\ \E size \in 0..MaxSize :
          fileStream = [fileSize |-> size, chunkCount |-> ChunkCountOf(size)]
    /\ sourceBytes \in 0..MaxSize
    /\ sourcePos = 0
    /\ pending = << >>
    /\ plain = << >>
    /\ flushed = FALSE
    /\ taken = 0
    /\ pullCount = 1
    /\ pushCalls = << >>
    /\ encrypted = << >>
    /\ encState = "readable"

\* while (next.length >= N) { enqueue(next.slice(0, N)); next = next.slice(N) }
\* as the pair of the chunks enqueued and of what is left of next.
RECURSIVE WhileFull(_, _)
WhileFull(next, out) ==
    IF Len(next) >= streamEncryptionChunkSize
    THEN WhileFull(SubSeq(next, streamEncryptionChunkSize + 1, Len(next)),
                   Append(out, SubSeq(next, 1, streamEncryptionChunkSize)))
    ELSE [enqueued |-> out, next |-> next]

\* transform(chunk, controller), for a read of n bytes.
Transform(n) ==
    /\ ~flushed
    /\ n \in 0..(sourceBytes - sourcePos)
    /\ LET chunk == Bytes(sourcePos, n)
           r == WhileFull(pending \o chunk, << >>)
       IN /\ plain' = plain \o r.enqueued
          /\ pending' = r.next
    /\ sourcePos' = sourcePos + n
    /\ UNCHANGED << fileStream, sourceBytes, flushed, taken, pullCount,
                    pushCalls, encrypted, encState >>

\* if (pending) controller.enqueue(pending)
FlushDropsPending(p) == << >>

FlushEnqueues(p) == IF p # << >> THEN << p >> ELSE << >>

\* flush(controller): the underlying stream has ended.
Flush ==
    /\ ~flushed
    /\ sourcePos = sourceBytes
    /\ plain' = plain \o FlushEnqueues(pending)
    /\ flushed' = TRUE
    /\ UNCHANGED << fileStream, sourceBytes, sourcePos, pending, taken,
                    pullCount, pushCalls, encrypted, encState >>

\* The result of fileStreamReader.read(): the next chunk, or done without a
\* value once the stream has ended.
NoValue == [done |-> TRUE, bytes |-> << >>]

ReadResult ==
    IF taken < Len(plain)
    THEN [done |-> FALSE, bytes |-> plain[taken + 1]]
    ELSE NoValue

\* worker.encryptStreamChunk(value, pushState, isFinal): the chunk sealed
\* under the push-state, which counts the chunks pushed before it, and tagged
\* final or not.
encryptStreamChunk(value, pushState, isFinal) ==
    [data |-> value.bytes, pushed |-> pushState, final |-> isFinal]

\* ref.pullCount === chunkCount
IsNeverFinal(count) == FALSE

IsFinalChunk(count) == count = fileStream.chunkCount

\* pull(controller) of the encrypted stream, entered when its consumer wants
\* a chunk and left when it has enqueued one.  read() settles once the
\* transformer has enqueued a chunk or has flushed.  Given no value,
\* encryptStreamChunk may throw (throws) or seal nothing.
Pull(throws) ==
    /\ encState = "readable"
    /\ pullCount <= MaxPulls
    /\ taken < Len(plain) \/ flushed
    /\ LET read == ReadResult
           isFinal == IsFinalChunk(pullCount)
       IN /\ taken' = IF read.done THEN taken ELSE taken + 1
          /\ pushCalls' = Append(pushCalls, [value |-> read, isFinal |-> isFinal])
          /\ IF read.done /\ throws
             THEN /\ encState' = "errored"
                  /\ UNCHANGED << encrypted, pullCount >>
             ELSE /\ encrypted' =
                        Append(encrypted,
                               encryptStreamChunk(read, Len(pushCalls), isFinal))
                  /\ encState' = IF isFinal THEN "closed" ELSE "readable"
                  /\ pullCount' = pullCount + 1
    /\ UNCHANGED << fileStream, sourceBytes, sourcePos, pending, plain, flushed >>

NextStream ==
    \/ \E n \in 0..MaxSize :
          Transform(n) /\ UNCHANGED exceptStream
    \/ Flush /\ UNCHANGED exceptStream
    \/ \E throws \in BOOLEAN :
          Pull(throws) /\ UNCHANGED exceptStream

\* No file is being read.
StreamAlone ==
    /\ fileStream = [fileSize |-> 0, chunkCount |-> 0]
    /\ sourceBytes = 0
    /\ sourcePos = 0
    /\ pending = << >>
    /\ plain = << >>
    /\ flushed = TRUE
    /\ taken = 0
    /\ pullCount = 1
    /\ pushCalls = << >>
    /\ encrypted = << >>
    /\ encState = "closed"

(***************************************************************************)
(* upload(): the check for an existing file with the same metadata         *)
(*                                                                         *)
(* A string is the sequence of its characters, and a value that may be     *)
(* undefined says whether it is defined.                                   *)
(***************************************************************************)
NoString == [defined |-> FALSE, s |-> << >>]

Str(s) == [defined |-> TRUE, s |-> s]

\* if (x), for a string or undefined: the empty string is falsy too.
Truthy(x) == x.defined /\ x.s # << >>

\* Existing files given to upload().
MaxFiles == 3

FileTypes == {"image", "livePhoto"}

Titles == {"a.jpg", "b.jpg"}

Hashes == {NoString, Str(<< >>), Str(<< "h" >>), Str(<< "i", ":", "v" >>)}

\* The metadata records compared: a type, a title, and the hash fields, each
\* absent, empty or set.
Metadatas ==
    [fileType : FileTypes, title : Titles, hash : Hashes,
     imageHash : {NoString, Str(<< "i" >>)},
     videoHash : {NoString, Str(<< "v" >>)}]

\* When several existing files are looked at: one title and type, with a
\* hash, another hash or none.
FewMetadatas ==
    [fileType : {"image"}, title : {"a.jpg"},
     hash : {NoString, Str(<< "h" >>), Str(<< "i", ":", "v" >>)},
     imageHash : {NoString}, videoHash : {NoString}]

CollectionIDs == {1, 2}

\* The existing files as upload() is given them: any one file, or several.
ExistingFiles(metadatas, n) ==
    [1..n -> [collectionID : CollectionIDs, metadata : metadatas]]

InitDedup ==
    /\ collection \in [id : CollectionIDs]
    /\ \/ /\ assetMetadata \in Metadatas
          /\ existingFiles \in ExistingFiles(Metadatas, 1)
       \/ /\ assetMetadata \in FewMetadatas
          /\ \E n \in (0..MaxFiles) \ {1} :
                existingFiles \in ExistingFiles(FewMetadatas, n)
    /\ matches = << >>
    /\ dedupPc = "extractAssetMetadata"
    /\ steps = << >>
    /\ uploadResponse = [uploadResult |-> "none", uploadedFile |-> 0, collectionID |-> 0]

\* metadataHash without the branch for the live photos of old web clients.
metadataHashStoredOnly(metadata) ==
    IF Truthy(metadata.hash) THEN metadata.hash ELSE NoString

metadataHash(metadata) ==
    IF Truthy(metadata.hash)
    THEN metadata.hash
    ELSE IF /\ metadata.fileType = "livePhoto"
            /\ Truthy(metadata.imageHash)
            /\ Truthy(metadata.videoHash)
         THEN Str(metadata.imageHash.s \o << ":" >> \o metadata.videoHash.s)
         ELSE NoString

\* The result is used for its truthiness, by filter().
areFilesSame(f, g) ==
    IF f.fileType # g.fileType \/ f.title # g.title
    THEN FALSE
    ELSE LET fh == metadataHash(f)
             gh == metadataHash(g)
         IN Truthy(fh) /\ Truthy(gh) /\ fh = gh

\* The positions in existingFiles of the files filter() keeps, in order.
RECURSIVE Filter(_)
Filter(n) ==
    IF n = 0
    THEN << >>
    ELSE IF areFilesSame(existingFiles[n].metadata, assetMetadata)
         THEN Append(Filter(n - 1), n)
         ELSE Filter(n - 1)

\* Looking no further than the first match.
FindFirstOnly(ms, id) ==
    IF ms # << >> /\ existingFiles[ms[1]].collectionID = id THEN ms[1] ELSE 0

\* matches.find((f) => f.collectionID == collection.id), 0 for undefined.
RECURSIVE Find(_, _)
Find(ms, id) ==
    IF ms = << >>
    THEN 0
    ELSE IF existingFiles[Head(ms)].collectionID = id
         THEN Head(ms)
         ELSE Find(Tail(ms), id)

Returned(result, file, id) ==
    [uploadResult |-> result, uploadedFile |-> file, collectionID |-> id]

\* extractAssetMetadata has returned: the filter over existingFiles and what
\* follows up to the next await.  Without a match abortIfCancelled() comes
\* first and may throw into the catch block.
CheckExisting ==
    /\ dedupPc = "extractAssetMetadata"
    /\ LET ms == Filter(Len(existingFiles))
           anyMatch == IF Len(ms) > 0 THEN ms[1] ELSE 0
           matchInSameCollection == Find(ms, collection.id)
       IN /\ matches' = ms
          /\ IF anyMatch # 0
             THEN IF matchInSameCollection # 0
                  THEN /\ uploadResponse' = Returned("alreadyUploaded",
                                              matchInSameCollection, collection.id)
                       /\ dedupPc' = "done"
                       /\ UNCHANGED steps
                  ELSE /\ steps' = Append(steps,
                              [op |-> "addToCollection", file |-> anyMatch,
                               collectionID |-> collection.id])
                       /\ dedupPc' = "addToCollection"
                       /\ UNCHANGED uploadResponse
             ELSE \/ /\ steps' = Append(steps, [op |-> "readAsset", file |-> 0,
                                                collectionID |-> 0])
                     /\ dedupPc' = "readAsset"
                     /\ UNCHANGED uploadResponse
                  \/ /\ uploadResponse' = Returned("failed", 0, 0)
                     /\ dedupPc' = "done"
                     /\ UNCHANGED steps
    /\ UNCHANGED << assetMetadata, existingFiles, collection >>

\* addToCollection returns, or throws into the catch block.
AddToCollectionReturns ==
    /\ dedupPc = "addToCollection"
    /\ \/ uploadResponse' = Returned("addedSymlink", matches[1], collection.id)
       \/ uploadResponse' = Returned("failed", 0, 0)
    /\ dedupPc' = "done"
    /\ UNCHANGED << assetMetadata, existingFiles, collection, matches, steps >>

\* The steps of upload() after the check, each up to its await.
NextStep(step) ==
    CASE step = "readAsset" -> "encryptFile"
      [] step = "encryptFile" -> "getUploadURL"
      [] step = "getUploadURL" -> "putFile"
      [] step = "putFile" -> "postFile"
      [] OTHER -> "done"

\* A step of the rest of upload() returns, or throws into the catch block.
StepReturns ==
    /\ dedupPc \in {"readAsset", "encryptFile", "getUploadURL", "putFile", "postFile"}
    /\ \/ /\ dedupPc' = NextStep(dedupPc)
          /\ IF dedupPc = "postFile"
             THEN /\ uploadResponse' = Returned("uploaded", 0, collection.id)
                  /\ UNCHANGED steps
             ELSE /\ steps' = Append(steps, [op |-> NextStep(dedupPc), file |-> 0,
                                             collectionID |-> 0])
                  /\ UNCHANGED uploadResponse
       \/ /\ dedupPc' = "done"
          /\ uploadResponse' = Returned("failed", 0, 0)
          /\ UNCHANGED steps
    /\ UNCHANGED << assetMetadata, existingFiles, collection, matches >>

NextDedup ==
    \/ CheckExisting /\ UNCHANGED exceptDedup
    \/ AddToCollectionReturns /\ UNCHANGED exceptDedup
    \/ StepReturns /\ UNCHANGED exceptDedup

\* No asset is being checked against existing files.
DedupAlone ==
    /\ assetMetadata = [fileType |-> "image", title |-> "a.jpg", hash |-> NoString,
                        imageHash |-> NoString, videoHash |-> NoString]
    /\ existingFiles = << >>
    /\ collection = [id |-> 1]
    /\ matches = << >>
    /\ dedupPc = "done"
    /\ steps = << >>
    /\ uploadResponse = [uploadResult |-> "none", uploadedFile |-> 0, collectionID |-> 0]

(***************************************************************************)
(* areLivePhotoAssets                                                      *)
(*                                                                         *)
(* A file name is the sequence of the pieces of its name and its           *)
(* extension; sizes are in MiB and timestamps in hours.                    *)
(***************************************************************************)
\* 20 * 1024 * 1024 bytes, in MiB.
maxAssetSize == 20

\* 24 * 60 * 60 seconds, in hours.
thresholdSeconds == 24

\* A timestamp that is undefined.
NoTimestamp == -1

LiveFileTypes == {"image", "video", "livePhoto"}

\* nameAndExtension(fileName): the name and the extension after its last dot
\* ("" when there is none).
nameAndExtension(fileName) == << fileName.name, fileName.ext >>

FileNames ==
    {[name |-> << "IMG1" >>, ext |-> "jpg"],
     [name |-> << "IMG1" >>, ext |-> "MOV"],
     [name |-> << "IMG1", "_3" >>, ext |-> "MOV"],
     [name |-> << "IMG1", "_hvec" >>, ext |-> "MOV"],
     [name |-> << "IMG1", ".mov" >>, ext |-> "jpg"],
     [name |-> << "IMG2" >>, ext |-> "MOV"],
     [name |-> << "IMG1" >>, ext |-> ""]}

\* `.${ext}`, or undefined ("") without an extension.
DotExt(ext) ==
    CASE ext = "MOV" -> ".MOV"
      [] ext = "jpg" -> ".jpg"
      [] OTHER -> ""

toLowerCase(s) ==
    CASE s = "_HVEC" -> "_hvec"
      [] s = ".MOV" -> ".mov"
      [] OTHER -> s

\* name.endsWith(suffix), for a suffix that is one piece of the name.
EndsWith(name, suffix) == name # << >> /\ name[Len(name)] = suffix

removePotentialLivePhotoSuffix(name, suffix) ==
    LET found ==
          IF EndsWith(name, "_3")
          THEN TRUE
          ELSE IF EndsWith(name, "_HVEC") \/ EndsWith(name, toLowerCase("_HVEC"))
               THEN TRUE
               ELSE IF suffix # ""
                    THEN EndsWith(name, suffix) \/ EndsWith(name, toLowerCase(suffix))
                    ELSE FALSE
    IN IF found THEN SubSeq(name, 1, Len(name) - 1) ELSE name

PotentialLivePhotoAssets ==
    [fileName : FileNames, fileType : LiveFileTypes, collectionID : {1, 2},
     pathPrefix : {"undefined", "a"}]

\* The sizes uploadItemSize may return.
AssetSizes == {0, maxAssetSize, maxAssetSize + 1}

\* What matchJSONMetadata may find: no entry ("none"), or an entry with its
\* creationTime (possibly undefined).
ParsedMetadataJSONs ==
    {[found |-> FALSE, creationTime |-> NoTimestamp],
     [found |-> TRUE, creationTime |-> NoTimestamp],
     [found |-> TRUE, creationTime |-> 30]}

\* The creation timestamps the Exif or video metadata may hold.
ExtractedTimestamps == {NoTimestamp, 0, 6, 30}

NotRead == << NoTimestamp, NoTimestamp >>

InitLive ==
    /\ assetF \in PotentialLivePhotoAssets
    /\ assetF.collectionID = 1
    /\ assetG \in PotentialLivePhotoAssets
    /\ livePc = "start"
    /\ sizes = NotRead
    /\ jsons = << [found |-> FALSE, creationTime |-> NoTimestamp],
                  [found |-> FALSE, creationTime |-> NoTimestamp] >>
    /\ dates = NotRead
    /\ areLivePhoto = "none"

\* One image and one video, in either order.
ImageAndVideo(ft, gt) ==
    \/ ft = "image" /\ gt = "video"
    \/ ft = "video" /\ gt = "image"

\* The pruned names of assetF and assetG.
PrunedNames ==
    LET fn == nameAndExtension(assetF.fileName)
        gn == nameAndExtension(assetG.fileName)
    IN IF assetF.fileType = "image" /\ assetG.fileType = "video"
       THEN << removePotentialLivePhotoSuffix(fn[1], DotExt(gn[2])),
               removePotentialLivePhotoSuffix(gn[1], "") >>
       ELSE << removePotentialLivePhotoSuffix(fn[1], ""),
               removePotentialLivePhotoSuffix(gn[1], DotExt(fn[2])) >>

\* areLivePhotoAssets up to its first await.
LiveStart ==
    /\ livePc = "start"
    /\ IF \/ assetF.collectionID # assetG.collectionID
          \/ assetF.pathPrefix # assetG.pathPrefix
          \/ ~ImageAndVideo(assetF.fileType, assetG.fileType)
          \/ PrunedNames[1] # PrunedNames[2]
       THEN /\ areLivePhoto' = "false"
            /\ livePc' = "done"
       ELSE /\ livePc' = "uploadItemSize"
            /\ UNCHANGED areLivePhoto
    /\ UNCHANGED << assetF, assetG, sizes, jsons, dates >>

\* No asset is too large to pair.
NeverTooLarge(size) == FALSE

TooLarge(size) == size > maxAssetSize

\* Both sizes have been read; then the lookups of the metadata JSONs.
LiveSizes(fSize, gSize) ==
    /\ livePc = "uploadItemSize"
    /\ sizes' = << fSize, gSize >>
    /\ IF TooLarge(fSize) \/ TooLarge(gSize)
       THEN /\ areLivePhoto' = "false"
            /\ livePc' = "done"
            /\ UNCHANGED jsons
       ELSE /\ \E fj \in ParsedMetadataJSONs, gj \in ParsedMetadataJSONs :
                  jsons' = << fj, gj >>
            /\ livePc' = "uploadItemCreationDate"
            /\ UNCHANGED areLivePhoto
    /\ UNCHANGED << assetF, assetG, dates >>

\* uploadItemCreationDate: the JSON's creationTime when it has one, else
\* what was extracted from the file.
uploadItemCreationDate(json, extracted) ==
    IF json.found /\ json.creationTime > 0 THEN json.creationTime ELSE extracted

\* fDate && gDate && Math.abs(fDate - gDate) / 1e6 < thresholdSeconds
haveSameishDate(fDate, gDate) ==
    /\ fDate > 0
    /\ gDate > 0
    /\ (IF fDate > gDate THEN fDate - gDate ELSE gDate - fDate) < thresholdSeconds

\* A date check that also counts when one side alone has a metadata JSON.
AlwaysCounted(fj, gj) == TRUE

\* Whether the date check counts: neither or both have a metadata JSON.
DateCheckCounts(fj, gj) ==
    \/ ~fj.found /\ ~gj.found
    \/ fj.found /\ gj.found

\* Both dates are there; the rest of areLivePhotoAssets.
LiveDates(fExtracted, gExtracted) ==
    /\ livePc = "uploadItemCreationDate"
    /\ LET fDate == uploadItemCreationDate(jsons[1], fExtracted)
           gDate == uploadItemCreationDate(jsons[2], gExtracted)
       IN /\ dates' = << fDate, gDate >>
          /\ areLivePhoto' =
                IF ~haveSameishDate(fDate, gDate) /\ DateCheckCounts(jsons[1], jsons[2])
                THEN "false"
                ELSE "true"
    /\ livePc' = "done"
    /\ UNCHANGED << assetF, assetG, sizes, jsons >>

NextLive ==
    \/ LiveStart /\ UNCHANGED exceptLive
    \/ \E fSize \in AssetSizes, gSize \in AssetSizes :
          LiveSizes(fSize, gSize)
          /\ UNCHANGED exceptLive
    \/ \E fExtracted \in ExtractedTimestamps, gExtracted \in ExtractedTimestamps :
          LiveDates(fExtracted, gExtracted)
          /\ UNCHANGED exceptLive

\* No pair of assets is being looked at.
LiveAlone ==
    /\ assetF = [fileName |-> [name |-> << "IMG1" >>, ext |-> ""], fileType |-> "image",
            collectionID |-> 1, pathPrefix |-> "undefined"]
    /\ assetG = assetF
    /\ livePc = "done"
    /\ sizes = NotRead
    /\ jsons = << [found |-> FALSE, creationTime |-> NoTimestamp],
                  [found |-> FALSE, creationTime |-> NoTimestamp] >>
    /\ dates = NotRead
    /\ areLivePhoto = "none"

(***************************************************************************)
(* upload(): from readAssetDetails to the metadata and its hash            *)
(*                                                                         *)
(* Sizes are in GiB.  The content of an item is the sequence of the chunks *)
(* its stream delivers, and a hash is the string of what was fed to it.    *)
(***************************************************************************)
\* 10 * 1024 * 1024 * 1024 bytes, in GiB.
maxFileSize == 10

\* The sizes of the items: well below, just below, at and above the ceiling.
ItemSizes == {1, 5, 9, 10, 11}

\* Chunks of an item whose hash is computed.
MaxHashChunks == 2

\* What a stream may deliver.
ChunkSeqs == {<< >>, << "x" >>, << "x", "y" >>, << "y" >>}

\* Streams of up to MaxHashChunks chunks.
ItemStreams == {s \in ChunkSeqs : Len(s) <= MaxHashChunks}

\* What readUploadItem returns to computeHash: the chunk count it derived
\* from the size and the stream itself.
UploadItemReads == [chunkCount : 0..MaxHashChunks, chunks : ItemStreams]

\* worker.chunkHashInit, chunkHashUpdate and chunkHashFinal: the digest is a
\* non-empty string that tells any two inputs apart.
chunkHashInit == << >>

chunkHashUpdate(hashState, chunk) == Append(hashState, chunk)

chunkHashFinal(hashState) == << "#" >> \o hashState

\* for (let i = 0; i < chunkCount; i++) { read; if (done) throw; update }
RECURSIVE HashLoop(_, _, _)
HashLoop(i, read, hashState) ==
    IF i < read.chunkCount
    THEN IF i >= Len(read.chunks)
         THEN [thrown |-> "Less chunks than expected", hash |-> << >>]
         ELSE HashLoop(i + 1, read,
                       chunkHashUpdate(hashState, read.chunks[i + 1]))
    ELSE [thrown |-> "none", hash |-> hashState]

\* The read after the loop is let through whatever it returns.
HashMoreChunksIgnored(read) == FALSE

\* const { done } = await streamReader.read(); if (!done) throw
HashMoreChunks(read) == read.chunkCount < Len(read.chunks)

\* computeHash(uploadItem, worker), for what readUploadItem returned.
computeHash(read) ==
    LET loop == HashLoop(0, read, chunkHashInit)
    IN IF loop.thrown # "none"
       THEN loop
       ELSE IF HashMoreChunks(read)
            THEN [thrown |-> "More chunks than expected", hash |-> << >>]
            ELSE [thrown |-> "none", hash |-> chunkHashFinal(loop.hash)]

\* The assets upload() is given: an image or video, or the two parts of a
\* live photo.
UploadAssets ==
    [isLivePhoto : {FALSE}, image : ItemSizes, video : {0}]
    \cup [isLivePhoto : {TRUE}, image : ItemSizes, video : ItemSizes]

\* The hashes in the records of files uploaded before.
KnownHashes == {chunkHashFinal(s) : s \in {<< >>, << "x" >>, << "x", "y" >>}}

\* The existing file upload() compares with: a live photo uploaded by an old
\* web client (imageHash and videoHash, no hash), one uploaded by a current
\* client, or an image.
ExistingMetadatas ==
    [fileType : {"livePhoto"}, title : {"a.jpg"}, hash : {NoString},
     imageHash : {Str(h) : h \in KnownHashes},
     videoHash : {Str(h) : h \in KnownHashes}]
    \cup [fileType : {"livePhoto"}, title : {"a.jpg"},
          hash : {Str(<< "#", "x", ":", "#", "x" >>)},
          imageHash : {NoString}, videoHash : {NoString}]
    \cup [fileType : {"image"}, title : {"a.jpg"}, hash : {Str(<< "#", "x" >>)},
          imageHash : {NoString}, videoHash : {NoString}]

NoMetadata ==
    [fileType |-> "none", title |-> "", hash |-> NoString,
     imageHash |-> NoString, videoHash |-> NoString]

InitExtract ==
    /\ uploadAsset \in UploadAssets
    /\ existingFile \in [collectionID : CollectionIDs, metadata : ExistingMetadatas]
    /\ extractPc = "readAssetDetails"
    /\ assetSize = -1
    /\ hashed = << >>
    /\ extractedMetadata = NoMetadata
    /\ performed = << >>
    /\ extractErr = "none"
    /\ extractResult = "none"

\* readLivePhotoDetails: img.fileSize + vid.fileSize
FileSizeOf(asset) ==
    IF asset.isLivePhoto THEN asset.image + asset.video ELSE asset.image

\* fileSize >= maxFileSize
AtCeiling(size) == size >= maxFileSize

\* readAssetDetails has settled: the type is not supported, the read failed,
\* or the details are there; then the size check and abortIfCancelled.
ReadAssetDetails(outcome, isCancelled) ==
    /\ extractPc = "readAssetDetails"
    /\ performed' = Append(performed, "readAssetDetails")
    /\ CASE outcome = "unsupported" ->
              /\ extractResult' = "unsupported"
              /\ extractPc' = "done"
              /\ UNCHANGED << assetSize, extractErr >>
         [] outcome = "error" ->
              /\ extractErr' = RequestFailed
              /\ extractPc' = "catch"
              /\ UNCHANGED << assetSize, extractResult >>
         [] OTHER ->
              /\ assetSize' = FileSizeOf(uploadAsset)
              /\ IF AtCeiling(FileSizeOf(uploadAsset))
                 THEN /\ extractResult' = "tooLarge"
                      /\ extractPc' = "done"
                      /\ UNCHANGED extractErr
                 ELSE IF isCancelled
                      THEN /\ extractErr' = UPLOAD_CANCELLED
                           /\ extractPc' = "catch"
                           /\ UNCHANGED extractResult
                      ELSE /\ extractPc' = "extractAssetMetadata"
                           /\ UNCHANGED << extractErr, extractResult >>
    /\ UNCHANGED << uploadAsset, existingFile, hashed, extractedMetadata >>

\* extractImageOrVideoMetadata for the image or video, or for the image of a
\* live photo: the metadata is read, then computeHash.
ExtractImageOrVideoMetadata(read) ==
    /\ extractPc = "extractAssetMetadata"
    /\ LET h == computeHash(read)
       IN /\ hashed' = Append(hashed, [item |-> "image", read |-> read, result |-> h])
          /\ performed' = performed \o << "extractMetadata", "computeHash" >>
          /\ IF h.thrown # "none"
             THEN /\ extractErr' = h.thrown
                  /\ extractPc' = "catch"
                  /\ UNCHANGED extractedMetadata
             ELSE /\ extractedMetadata' =
                        [fileType |-> "image", title |-> "a.jpg",
                         hash |-> Str(h.hash), imageHash |-> NoString,
                         videoHash |-> NoString]
                  /\ extractPc' = IF uploadAsset.isLivePhoto
                                  THEN "computeHash" ELSE "areFilesSame"
                  /\ UNCHANGED extractErr
    /\ UNCHANGED << uploadAsset, existingFile, assetSize, extractResult >>

\* A composite that keeps the hash of the image alone.
ImageHashOnly(imageHash, videoHash) == imageHash

\* `${imageHash}:${videoHash}`
LivePhotoHash(imageHash, videoHash) == imageHash \o << ":" >> \o videoHash

\* extractLivePhotoMetadata after the metadata of the image: computeHash of
\* the video and the metadata of the live photo.
ExtractLivePhotoMetadata(read) ==
    /\ extractPc = "computeHash"
    /\ LET h == computeHash(read)
       IN /\ hashed' = Append(hashed, [item |-> "video", read |-> read, result |-> h])
          /\ performed' = Append(performed, "computeHash")
          /\ IF h.thrown # "none"
             THEN /\ extractErr' = h.thrown
                  /\ extractPc' = "catch"
                  /\ UNCHANGED extractedMetadata
             ELSE /\ extractedMetadata' =
                        [extractedMetadata EXCEPT
                            !.fileType = "livePhoto",
                            !.hash = Str(LivePhotoHash(extractedMetadata.hash.s,
                                                       h.hash))]
                  /\ extractPc' = "areFilesSame"
                  /\ UNCHANGED extractErr
    /\ UNCHANGED << uploadAsset, existingFile, assetSize, extractResult >>

\* The check against the existing file, up to the next await.
CheckExistingFile(isCancelled) ==
    /\ extractPc = "areFilesSame"
    /\ IF areFilesSame(existingFile.metadata, extractedMetadata)
       THEN IF existingFile.collectionID = 1
            THEN /\ extractResult' = "alreadyUploaded"
                 /\ extractPc' = "done"
                 /\ UNCHANGED << performed, extractErr >>
            ELSE /\ performed' = Append(performed, "addToCollection")
                 /\ extractPc' = "addToCollection"
                 /\ UNCHANGED << extractResult, extractErr >>
       ELSE IF isCancelled
            THEN /\ extractErr' = UPLOAD_CANCELLED
                 /\ extractPc' = "catch"
                 /\ UNCHANGED << performed, extractResult >>
            ELSE /\ performed' = Append(performed, "readAsset")
                 /\ extractPc' = "readAsset"
                 /\ UNCHANGED << extractResult, extractErr >>
    /\ UNCHANGED << uploadAsset, existingFile, assetSize, hashed, extractedMetadata >>

\* What follows a step of the rest of upload().
NextCall(step) ==
    CASE step = "readAsset" -> "encryptFile"
      [] step = "encryptFile" -> "uploadToBucket"
      [] step = "uploadToBucket" -> "postFile"
      [] OTHER -> "done"

\* A later call of upload() returns, or throws into the catch block.
CallReturns(throws) ==
    /\ extractPc \in {"addToCollection", "readAsset", "encryptFile",
                      "uploadToBucket", "postFile"}
    /\ IF throws
       THEN /\ extractErr' = RequestFailed
            /\ extractPc' = "catch"
            /\ UNCHANGED << performed, extractResult >>
       ELSE /\ extractPc' = NextCall(extractPc)
            /\ IF extractPc \in {"addToCollection", "postFile"}
               THEN /\ extractResult' = IF extractPc = "postFile"
                                        THEN "uploaded" ELSE "addedSymlink"
                    /\ UNCHANGED performed
               ELSE /\ performed' = Append(performed, NextCall(extractPc))
                    /\ UNCHANGED extractResult
            /\ UNCHANGED extractErr
    /\ UNCHANGED << uploadAsset, existingFile, assetSize, hashed, extractedMetadata >>

\* The catch block of upload().
ExtractCatch ==
    /\ extractPc = "catch"
    /\ \E throws \in handleUploadErrorThrows(extractErr) :
          IF throws
          THEN extractPc' = "rejected" /\ UNCHANGED extractResult
          ELSE extractPc' = "done" /\ extractResult' = CatchResult(extractErr)
    /\ UNCHANGED << uploadAsset, existingFile, assetSize, hashed,
                    extractedMetadata, performed, extractErr >>

NextExtract ==
    \/ \E outcome \in {"ok", "unsupported", "error"}, isCancelled \in BOOLEAN :
          ReadAssetDetails(outcome, isCancelled) /\ UNCHANGED exceptExtract
    \/ \E read \in UploadItemReads :
          ExtractImageOrVideoMetadata(read) /\ UNCHANGED exceptExtract
    \/ \E read \in UploadItemReads :
          ExtractLivePhotoMetadata(read) /\ UNCHANGED exceptExtract
    \/ \E isCancelled \in BOOLEAN :
          CheckExistingFile(isCancelled) /\ UNCHANGED exceptExtract
    \/ \E throws \in BOOLEAN : CallReturns(throws) /\ UNCHANGED exceptExtract
    \/ ExtractCatch /\ UNCHANGED exceptExtract

\* No asset is at the start of upload().
ExtractAlone ==
    /\ uploadAsset = [isLivePhoto |-> FALSE, image |-> 1, video |-> 0]
    /\ existingFile =
          [collectionID |-> 1,
           metadata |-> [fileType |-> "image", title |-> "a.jpg",
                         hash |-> Str(<< "#", "x" >>), imageHash |-> NoString,
                         videoHash |-> NoString]]
    /\ extractPc = "done"
    /\ assetSize = -1
    /\ hashed = << >>
    /\ extractedMetadata = NoMetadata
    /\ performed = << >>
    /\ extractErr = "none"
    /\ extractResult = "none"

(***************************************************************************)
(* uploadToBucket: the progress reported                                   *)
(*                                                                         *)
(* A JavaScript number is an IEEE 754 double.  Here a non-negative number  *)
(* is the pair of a numerator, written as its binary digits from the most  *)
(* significant one, and a scale: bits * 2^(-scale).  The operations are    *)
(* exact and Round brings a result to the 53 significant bits of a double, *)
(* to nearest, ties to even.  Long numerators are worked on in limbs of    *)
(* LimbBits digits.                                                        *)
(***************************************************************************)
\* Significant bits of a double.
Precision == 53

\* Binary digits worked on at once.
LimbBits == 15

RECURSIVE Pow2(_)
Pow2(e) == IF e = 0 THEN 1 ELSE 2 * Pow2(e - 1)

\* The w low binary digits of a natural number.
BitsPadded(x, w) == [i \in 1..w |-> (x \div Pow2(w - i)) % 2]

\* The natural number of a short sequence of binary digits.
RECURSIVE IntOf(_)
IntOf(bits) ==
    IF bits = << >>
    THEN 0
    ELSE 2 * IntOf(SubSeq(bits, 1, Len(bits) - 1)) + bits[Len(bits)]

\* Without its leading zeros.
Strip(bits) ==
    LET ones == {i \in 1..Len(bits) : bits[i] = 1}
    IN IF ones = {}
       THEN << >>
       ELSE SubSeq(bits, CHOOSE i \in ones : \A j \in ones : i <= j, Len(bits))

\* The binary digits of a natural number below 2^31.
BitsOf(x) == Strip(BitsPadded(x, 31))

Zeros(n) == [i \in 1..n |-> 0]

Number(bits, scale) == [bits |-> bits, scale |-> scale]

FromInt(x) == Number(BitsOf(x), 0)

\* The limbs of a numerator, the most significant first.
Limbs(bits) ==
    LET count == (Len(bits) + LimbBits - 1) \div LimbBits
        padded == Zeros(count * LimbBits - Len(bits)) \o bits
    IN [j \in 1..count |->
           IntOf(SubSeq(padded, (j - 1) * LimbBits + 1, j * LimbBits))]

\* limbs * k, for the limbs up to position j and a carry.
RECURSIVE MulFrom(_, _, _, _)
MulFrom(limbs, j, k, carry) ==
    IF j = 0
    THEN BitsOf(carry)
    ELSE MulFrom(limbs, j - 1, k, (limbs[j] * k + carry) \div Pow2(LimbBits))
         \o BitsPadded((limbs[j] * k + carry) % Pow2(LimbBits), LimbBits)

\* The exact product of a number and a natural number.
MulInt(v, k) ==
    Number(Strip(MulFrom(Limbs(v.bits), Len(Limbs(v.bits)), k, 0)), v.scale)

\* The exact sum of a number and a natural number.
AddInt(v, c) ==
    LET n == Len(v.bits)
        high == IF n > v.scale THEN SubSeq(v.bits, 1, n - v.scale) ELSE << >>
        low == IF n > v.scale
               THEN SubSeq(v.bits, n - v.scale + 1, n)
               ELSE Zeros(v.scale - n) \o v.bits
    IN Number(Strip(BitsOf(IntOf(high) + c) \o low), v.scale)

\* bits + 1
Inc(bits) ==
    LET zeros == {i \in 1..Len(bits) : bits[i] = 0}
    IN IF zeros = {}
       THEN << 1 >> \o Zeros(Len(bits))
       ELSE LET last == CHOOSE i \in zeros : \A j \in zeros : j <= i
            IN [i \in 1..Len(bits) |->
                   IF i < last THEN bits[i] ELSE IF i = last THEN 1 ELSE 0]

\* The double nearest to the number, ties to even; sticky says that the
\* number is a little more than its digits.
Round(v, sticky) ==
    LET n == Len(v.bits)
    IN IF n <= Precision
       THEN v
       ELSE LET kept == SubSeq(v.bits, 1, Precision)
                more == sticky \/ \E i \in (Precision + 2)..n : v.bits[i] = 1
                up == v.bits[Precision + 1] = 1 /\ (more \/ kept[Precision] = 1)
            IN Number(IF up THEN Inc(kept) ELSE kept, v.scale - (n - Precision))

\* The next count limbs of the digits of r / b for r < b, followed by what
\* is left of the division.
RECURSIVE DivLimbs(_, _, _)
DivLimbs(r, b, count) ==
    IF count = 0
    THEN << r >>
    ELSE BitsPadded((r * Pow2(LimbBits)) \div b, LimbBits)
         \o DivLimbs((r * Pow2(LimbBits)) % b, b, count - 1)

\* The least e with m < n * 2^(e + 1), for m >= n.
RECURSIVE ShiftOf(_, _)
ShiftOf(m, n) == IF m < 2 * n THEN 0 ELSE 1 + ShiftOf(m, 2 * n)

\* Limbs that hold the digits after the first, one more and some beyond.
QuotientLimbs == 4

\* m / n for natural numbers m and n, n # 0: the rounded quotient.
Div(m, n) ==
    IF m = 0
    THEN FromInt(0)
    ELSE LET up == IF m >= n THEN ShiftOf(m, n) ELSE 0
             down == IF m >= n THEN 0 ELSE 1 + ShiftOf(n - 1, m)
             a == m * Pow2(down)
             b == n * Pow2(up)
             q == DivLimbs(a - b, b, QuotientLimbs)
             digits == QuotientLimbs * LimbBits
         IN Round(Number(<< 1 >> \o SubSeq(q, 1, digits), digits + down - up),
                  q[digits + 1] # 0)

\* The numerator of v at scale s >= v.scale.
AtScale(v, s) == Strip(v.bits \o Zeros(s - v.scale))

\* a <= b for numerators of one length.
LexLeq(a, b) ==
    \/ a = b
    \/ \E i \in 1..Len(a) :
          /\ a[i] < b[i]
          /\ \A j \in 1..(i - 1) : a[j] = b[j]

\* u <= v
Leq(u, v) ==
    LET s == IF u.scale > v.scale THEN u.scale ELSE v.scale
        a == AtScale(u, s)
        b == AtScale(v, s)
    IN IF Len(a) # Len(b) THEN Len(a) < Len(b) ELSE LexLeq(a, b)

\* u === v
Same(u, v) == Leq(u, v) /\ Leq(v, u)

\* Math.floor
Floor(v) ==
    IF Len(v.bits) > v.scale
    THEN IntOf(SubSeq(v.bits, 1, Len(v.bits) - v.scale))
    ELSE 0

\* The values Math.random() may return, in [0, 1): 0, 1/4, 1/2, 5/8, 7/8, and
\* some of the largest ones: 1 - 2^-49, 1 - 2^-52 and 1 - 2^-53.
RandomValues ==
    {Number(<< >>, 0), Number(<< 1 >>, 2), Number(<< 1 >>, 1),
     Number(<< 1, 0, 1 >>, 3), Number(<< 1, 1, 1 >>, 3),
     Number([i \in 1..49 |-> 1], 49), Number([i \in 1..52 |-> 1], 52),
     Number([i \in 1..53 |-> 1], 53)}

\* The encrypted files uploaded: bytes, a stream of less than a part, and
\* streams of 1, 3, 11 and 37 parts.
ProgressFiles ==
    {[kind |-> "bytes", chunkCount |-> 0]}
    \cup {[kind |-> "stream", chunkCount |-> c] : c \in {4, 5, 12, 55, 185}}

InitProgress ==
    /\ random \in RandomValues
    /\ progressFile \in ProgressFiles
    /\ progressPc = "uploadToBucket"
    /\ maxPercent = 0
    /\ percentPerPart = FromInt(0)
    /\ partURLCount = 0
    /\ partNumber = 0
    /\ progress = << >>

\* Math.floor(95 + 5 * Math.random())
MaxPercentOf(r) ==
    Floor(Round(AddInt(Round(MulInt(r, 5), FALSE), 95), FALSE))

\* uploadToBucket up to its first await.
ProgressStart ==
    /\ progressPc = "uploadToBucket"
    /\ maxPercent' = MaxPercentOf(random)
    /\ progressPc' = IF UseMultipart(progressFile)
                     THEN "fetchMultipartUploadURLs" ELSE "putFile"
    /\ UNCHANGED << random, progressFile, percentPerPart, partURLCount,
                    partNumber, progress >>

\* The single PUT of the file is done: updateUploadProgress(localID, maxPercent)
ProgressFilePut ==
    /\ progressPc = "putFile"
    /\ progress' = Append(progress, FromInt(maxPercent))
    /\ progressPc' = "returned"
    /\ UNCHANGED << random, progressFile, maxPercent, percentPerPart,
                    partURLCount, partNumber >>

\* fetchMultipartUploadURLs has returned n part URLs.
ProgressPartURLs(n) ==
    /\ progressPc = "fetchMultipartUploadURLs"
    /\ partURLCount' = n
    /\ percentPerPart' = Div(maxPercent, uploadPartCount(progressFile))
    /\ progressPc' = IF n = 0 THEN "finalRead" ELSE "putFilePart"
    /\ UNCHANGED << random, progressFile, maxPercent, partNumber, progress >>

\* The PUT of the next part is done:
\* updateUploadProgress(fileLocalID, percentPerPart * partNumber)
ProgressPartPut ==
    /\ progressPc = "putFilePart"
    /\ partNumber' = partNumber + 1
    /\ progress' = Append(progress,
                          Round(MulInt(percentPerPart, partNumber + 1), FALSE))
    /\ progressPc' = IF partNumber + 1 = partURLCount
                     THEN "finalRead" ELSE "putFilePart"
    /\ UNCHANGED << random, progressFile, maxPercent, percentPerPart,
                    partURLCount >>

\* After the loop: with fewer part URLs than parts the stream is not done and
\* the upload throws; else the completion call, and uploadToBucket goes on.
ProgressFinalRead ==
    /\ progressPc = "finalRead"
    /\ progressPc' = IF partURLCount < uploadPartCount(progressFile)
                     THEN "threw" ELSE "returned"
    /\ UNCHANGED << random, progressFile, maxPercent, percentPerPart,
                    partURLCount, partNumber, progress >>

\* A request fails for good, or a part comes back without its eTag.
ProgressThrows ==
    /\ progressPc \in {"putFile", "fetchMultipartUploadURLs", "putFilePart",
                      "finalRead"}
    /\ progressPc' = "threw"
    /\ UNCHANGED << random, progressFile, maxPercent, percentPerPart,
                    partURLCount, partNumber, progress >>

NextProgress ==
    \/ ProgressStart /\ UNCHANGED exceptProgress
    \/ ProgressFilePut /\ UNCHANGED exceptProgress
    \/ \E n \in PartURLAnswers(uploadPartCount(progressFile)) :
          ProgressPartURLs(n) /\ UNCHANGED exceptProgress
    \/ ProgressPartPut /\ UNCHANGED exceptProgress
    \/ ProgressFinalRead /\ UNCHANGED exceptProgress
    \/ ProgressThrows /\ UNCHANGED exceptProgress

\* No upload reports progress.
ProgressAlone ==
    /\ random = Number(<< >>, 0)
    /\ progressFile = [kind |-> "bytes", chunkCount |-> 0]
    /\ progressPc = "returned"
    /\ maxPercent = 0
    /\ percentPerPart = FromInt(0)
    /\ partURLCount = 0
    /\ partNumber = 0
    /\ progress = << >>

OthersAlone ==
    /\ StreamAlone /\ DedupAlone /\ LiveAlone /\ ExtractAlone /\ ProgressAlone
    /\ ServiceAlone /\ MemoriesAlone

\* No file's metadata is looked at.
MetaAlone ==
    /\ magicMetadata = NoEnvelope
    /\ pubMagicMetadata = NoEnvelope
    /\ remote = [t \in Tiers |-> NoEnvelope]
    /\ updaters = [p \in Updaters |-> NoUpdate]
    /\ applied = [t \in Tiers |-> << >>]
    /\ synced = [t \in Tiers |-> [version |-> 0, content |-> EmptyObject]]
    /\ updateCount = 0

\* An asset's upload on its own: the service is modelled by the outcomes of
\* getUploadURL.
UploadAlone ==
    /\ uploadURLs = << >>
    /\ pendingUploadCount = 1
    /\ activeUploadURLRefill = 0
    /\ refills = << >>
    /\ callers = [c \in Callers |-> Idle]
    /\ calls = 0

\* The service on its own: no asset's upload is looked at.
PoolAlone ==
    /\ pc = "done"
    /\ cancelled = FALSE
    /\ encryptedData = [kind |-> "bytes", chunkCount |-> 0]
    /\ hasStaticThumbnail = FALSE
    /\ partURLs = -1
    /\ streamPos = 0
    /\ index = 0
    /\ partData = << >>
    /\ completedParts = << >>
    /\ req = "none"
    /\ attempt = 0
    /\ failures = 0
    /\ net = << >>
    /\ err = "none"
    /\ uploadResult = "none"
    /\ cancelAt = [pc |-> "none", req |-> "none", attempt |-> 0, parts |-> 0, net |-> 0]
    /\ uploadURLsTaken = << >>

NextUpload ==
    \/ Cancel /\ UNCHANGED << poolVars, metaVars, otherVars >>
    \/ StartUploadToBucket /\ UNCHANGED << poolVars, metaVars, otherVars >>
    \/ FetchMultipartUploadURLsReturn /\ UNCHANGED << poolVars, metaVars, otherVars >>
    \/ NextMultipartUploadPart /\ UNCHANGED << poolVars, metaVars, otherVars >>
    \/ RetrierAttempt /\ UNCHANGED << poolVars, metaVars, otherVars >>
    \/ RetrierResponse /\ UNCHANGED << poolVars, metaVars, otherVars >>
    \/ FinalRead /\ UNCHANGED << poolVars, metaVars, otherVars >>
    \/ GetFileUploadURL /\ UNCHANGED << poolVars, metaVars, otherVars >>
    \/ GetThumbnailUploadURL /\ UNCHANGED << poolVars, metaVars, otherVars >>
    \/ PostFileReturn /\ UNCHANGED << poolVars, metaVars, otherVars >>
    \/ Catch /\ UNCHANGED << poolVars, metaVars, otherVars >>

InitSpecUpload == InitUpload /\ UploadAlone /\ MetaAlone /\ OthersAlone

SpecUpload == InitSpecUpload /\ [][NextUpload]_vars

InitSpecPool == InitPool /\ PoolAlone /\ MetaAlone /\ OthersAlone

SpecPool == InitSpecPool /\ [][NextPool]_vars

InitSpecMeta == InitMeta /\ PoolAlone /\ UploadAlone /\ OthersAlone

SpecMeta == InitSpecMeta /\ [][NextMeta]_vars

InitSpecStream ==
    /\ InitStream
    /\ PoolAlone /\ UploadAlone /\ MetaAlone /\ DedupAlone /\ LiveAlone
    /\ ExtractAlone /\ ProgressAlone /\ ServiceAlone /\ MemoriesAlone

SpecStream == InitSpecStream /\ [][NextStream]_vars

\* The source keeps delivering and the consumer of the encrypted stream keeps
\* pulling: a step that can be taken is taken.
SpecStreamFair == SpecStream /\ WF_vars(NextStream)

InitSpecDedup ==
    /\ InitDedup
    /\ PoolAlone /\ UploadAlone /\ MetaAlone /\ StreamAlone /\ LiveAlone
    /\ ExtractAlone /\ ProgressAlone /\ ServiceAlone /\ MemoriesAlone

SpecDedup == InitSpecDedup /\ [][NextDedup]_vars

InitSpecLive ==
    /\ InitLive
    /\ PoolAlone /\ UploadAlone /\ MetaAlone /\ StreamAlone /\ DedupAlone
    /\ ExtractAlone /\ ProgressAlone /\ ServiceAlone /\ MemoriesAlone

SpecLive == InitSpecLive /\ [][NextLive]_vars

InitSpecExtract ==
    /\ InitExtract
    /\ PoolAlone /\ UploadAlone /\ MetaAlone /\ StreamAlone /\ DedupAlone
    /\ LiveAlone /\ ProgressAlone /\ ServiceAlone /\ MemoriesAlone

SpecExtract == InitSpecExtract /\ [][NextExtract]_vars

InitSpecProgress ==
    /\ InitProgress
    /\ PoolAlone /\ UploadAlone /\ MetaAlone /\ StreamAlone /\ DedupAlone
    /\ LiveAlone /\ ExtractAlone /\ ServiceAlone /\ MemoriesAlone

SpecProgress == InitSpecProgress /\ [][NextProgress]_vars

InitSpecService ==
    /\ InitService
    /\ PoolAlone /\ MetaAlone /\ StreamAlone /\ DedupAlone /\ LiveAlone
    /\ ExtractAlone /\ ProgressAlone /\ MemoriesAlone

SpecService == InitSpecService /\ [][NextService]_vars

InitSpecMemories ==
    /\ InitMemories
    /\ PoolAlone /\ UploadAlone /\ MetaAlone /\ StreamAlone /\ DedupAlone
    /\ LiveAlone /\ ExtractAlone /\ ProgressAlone /\ ServiceAlone

SpecMemories == InitSpecMemories /\ [][NextMemories]_vars

(***************************************************************************)
(* Properties of the multipart upload                                      *)
(***************************************************************************)
IsETag(e) == e.op = "eTag"

IsPutFilePart(e) == e.op = "putFilePart"

\* The tags returned before the i-th network event, in order.
TagsBefore(i) == SelectSeq(SubSeq(net, 1, i - 1), IsETag)

\* C1: multipart ordering. A part's PUT goes out only when exactly the parts
\* before it have returned their tags, so parts are PUT one at a time in
\* increasing part number; the completion call carries one (partNumber, eTag)
\* pair per part URL, numbered 1..P in ascending order with the tags the PUTs
\* returned, and goes out only after all P parts were acknowledged; P is
\* ceil(chunkCount / 5) when the backend supplied the number of URLs asked for.
C1_MultipartOrdering ==
    \A i \in 1..Len(net) :
        /\ net[i].op = "putFilePart" =>
              /\ net[i].n = Len(TagsBefore(i)) + 1
              /\ net[i].n = Len(net[i].parts) + 1
              /\ \A j \in 1..(i - 1) :
                    net[j].op = "putFilePart" => net[j].n <= net[i].n
        /\ net[i].op = "eTag" => net[i].n = Len(TagsBefore(i)) + 1
        /\ net[i].op = "completeMultipartUpload" =>
              LET tags == TagsBefore(i) IN
              /\ Len(net[i].parts) = partURLs
              /\ Len(tags) = partURLs
              /\ \A k \in 1..partURLs :
                    /\ net[i].parts[k].partNumber = k
                    /\ net[i].parts[k].eTag = tags[k].tag
                    /\ tags[k].n = k
              /\ \A j \in (i + 1)..Len(net) : net[j].op # "putFilePart"
              /\ partURLs \in PartURLAnswers(uploadPartCount(encryptedData))
              /\ partURLs >= uploadPartCount(encryptedData)

\* A 12 chunk stream uploaded in 3 parts after a retry, and finalized.
C1_Witness ==
    /\ pc = "done"
    /\ uploadResult = "uploaded"
    /\ encryptedData.chunkCount = 12
    /\ Len(completedParts) = 3
    /\ Len(SelectSeq(net, IsPutFilePart)) > 3
    /\ \E i \in 1..Len(net) : net[i].op = "completeMultipartUpload"

\* The chunks part k of a stream of c chunks holds.
ExpectedPart(k, c) ==
    Chunks(multipartChunksPerPart * (k - 1) + 1,
           Min(multipartChunksPerPart * k, c))

RECURSIVE Concat(_)
Concat(ss) == IF ss = << >> THEN << >> ELSE Head(ss) \o Concat(Tail(ss))

\* The bodies of the parts that returned a tag, in order.
AcknowledgedParts ==
    [k \in 1..Len(completedParts) |->
        LET puts == SelectSeq(net, LAMBDA e : e.op = "putFilePart" /\ e.n = k)
        IN  puts[Len(puts)].data]

CancelledBetweenParts ==
    /\ cancelled
    /\ cancelAt.parts >= 1
    /\ cancelAt.parts < partURLs
    /\ cancelAt.parts < uploadPartCount(encryptedData)
    /\ \/ cancelAt.pc = "nextMultipartUploadPart"
       \/ cancelAt.pc = "attempt" /\ cancelAt.req = "part" /\ cancelAt.attempt = 0

\* Nothing went over the network since the flag was set.
NoRequestSinceCancel == Len(net) = cancelAt.net

C4_ExclusiveRefill ==
    /\ Cardinality(InFlight) <= 1
    /\ \A i \in InFlight :
          /\ activeUploadURLRefill = i
          /\ \A c \in Callers :
                callers[c].pc = "awaitRefill" => callers[c].awaiting = i

\* Both callers, one of them in setFileCount, await the one refill in flight.
C4_Witness ==
    /\ Cardinality(InFlight) = 1
    /\ \A c \in Callers :
          callers[c].pc = "awaitRefill" /\ callers[c].awaiting \in InFlight
    /\ \E c, d \in Callers :
          callers[c].op = "getUploadURL" /\ callers[d].op = "setFileCount"

(***************************************************************************)
(* Properties of the interactive metadata updates                          *)
(***************************************************************************)
FileTier(t) == IF t = "private" THEN magicMetadata ELSE pubMagicMetadata

\* The version an update found in the file when it read it.
PreUpdateVersion(u) == IF u.built.present THEN u.built.version ELSE 1

\* The keys of a merged value that survive the dropping of nulls.
SurvivingKeys(o) == {k \in Keys : o[k] \notin {Absent, Null, Undefined}}

\* C5: an interactive update submits an envelope whose version is the
\* version v the tier had before the update (1 when the file has no envelope
\* for the tier) and whose count is the number of keys that survive
\* null-dropping; when the write succeeds the tier object it synthesizes has
\* version v + 1, and that is the version of the file's tier when it returns.
C5_OptimisticVersion ==
    \A p \in Updaters :
        LET u == updaters[p] IN
        /\ u.request.present =>
              /\ u.request.version = PreUpdateVersion(u)
              /\ u.request.count = Cardinality(SurvivingKeys(u.updatedMetadata))
        /\ u.result.present => u.result.version = PreUpdateVersion(u) + 1
        /\ (u.pc = "returned" /\ u.result.present /\ (u.tier = "private" \/ ~u.stale))
              => FileTier(u.tier).version = PreUpdateVersion(u) + 1

C5_Witness ==
    \E p \in Updaters :
        LET u == updaters[p] IN
        /\ u.pc = "returned"
        /\ u.tier = "public"
        /\ u.built.present
        /\ u.result.present
        /\ pubMagicMetadata.version = u.built.version + 1
        /\ u.request.count < Cardinality(KeysOf(u.updatedMetadata))

\* C6: an update made after another update of the same tier was applied,
\* with no sync in between, submits the version the first one submitted
\* plus one; when these two are the only updates, the remote does not
\* reject the second one.
C6_BackToBack ==
    \A p \in Updaters :
        LET u == updaters[p] IN
        (u.request.present /\ u.previous # 0) =>
            /\ u.request.version = u.previous + 1
            /\ updateCount = 2 => u.response # "conflict"

C6_Witness ==
    \E p \in Updaters :
        LET u == updaters[p] IN
        /\ u.previous # 0
        /\ u.pc = "returned"
        /\ u.response = "ok"
        /\ updateCount = 2
        /\ remote[u.tier].version = u.previous + 2

\* What an envelope says: its version, count, header and decrypted content.
TierView(envelope) ==
    [present |-> envelope.present, version |-> envelope.version,
     count |-> envelope.count, header |-> envelope.header,
     content |-> envelope.data.obj]

\* C7: an update whose write the remote rejected for its version ends by
\* throwing and synthesizes no tier object; the step in which it throws
\* leaves both envelopes of the file as they were, and unless a sync or
\* another update replaced it meanwhile, the file's envelope for the tier
\* has the version and content the update found.
C7_ConflictKeepsEnvelope ==
    /\ [](\A p \in Updaters :
            updaters[p].response = "conflict" =>
                /\ updaters[p].pc \in {"responded", "threw"}
                /\ ~updaters[p].result.present
                /\ ~updaters[p].stale =>
                      TierView(FileTier(updaters[p].tier)) = TierView(updaters[p].seen))
    /\ [][\A p \in Updaters :
            (updaters[p].pc = "responded" /\ updaters[p].response = "conflict") =>
                /\ updaters'[p].pc \in {"responded", "threw"}
                /\ updaters'[p].pc = "threw" =>
                      /\ magicMetadata' = magicMetadata
                      /\ pubMagicMetadata' = pubMagicMetadata]_vars

C7_Witness ==
    \E p \in Updaters :
        LET u == updaters[p] IN
        /\ u.pc = "threw"
        /\ u.response = "conflict"
        /\ u.built.present
        /\ remote[u.tier].version # u.request.version
        /\ FileTier(u.tier).version = u.built.version
        /\ FileTier(u.tier).data.obj = u.built.data.obj

\* The JSON object inside a transmitted envelope has no null or undefined
\* value and as many keys as the envelope's count.
NullFree(envelope) ==
    LET sent == decryptMetadataJSON(envelope.data) IN
    /\ \A k \in Keys : sent[k] \notin {Null, Undefined}
    /\ envelope.count = Cardinality({k \in Keys : sent[k] # Absent})

\* C8: the object an interactive update encrypts and transmits has no key
\* whose value is null or undefined, and the envelope's count is the number
\* of keys of that object; so for what the remote stores.
C8_NoNullTransmitted ==
    /\ \A p \in Updaters : updaters[p].request.present => NullFree(updaters[p].request)
    /\ \A t \in Tiers : remote[t].present => NullFree(remote[t])

C8_Witness ==
    \E p \in Updaters, k \in Keys :
        LET u == updaters[p] IN
        /\ u.pc = "responded"
        /\ u.response = "ok"
        /\ u.metadataUpdates[k] = Null
        /\ u.existingMetadata[k] \notin {Absent, Null, Undefined}
        /\ decryptMetadataJSON(remote[u.tier].data)[k] = Absent
        /\ remote[u.tier].count < u.seen.count

\* The value of a tier with content c after the updates of u.
Overlay(c, u) ==
    [k \in Keys |-> IF u[k] = Absent THEN c[k]
                    ELSE IF u[k] \in {Null, Undefined} THEN Absent
                    ELSE u[k]]

\* Two updates with no key in common, as one.
Both(u1, u2) == [k \in Keys |-> IF u1[k] # Absent THEN u1[k] ELSE u2[k]]

\* The updates of the public tier applied since the sync ran one after the
\* other, none with the envelope replaced under it.
OneAfterTheOther == \A i \in 1..Len(applied.public) : ~applied.public[i].stale

\* C9: after two updates of the public tier with disjoint keys, applied one
\* after the other, the tier has the content it had before with the fields
\* of both updates, whichever came first; and the version of the tier is
\* the version it had plus the number of updates applied.
C9_MergeCommutes ==
    LET a == applied.public
        before == IF synced.public.version = 0 THEN 1 ELSE synced.public.version
    IN  OneAfterTheOther =>
          /\ Len(a) >= 1 => pubMagicMetadata.version = before + Len(a)
          /\ (/\ Len(a) = 2
              /\ KeysOf(a[1].metadataUpdates) \cap KeysOf(a[2].metadataUpdates) = {})
                => pubMagicMetadata.data.obj =
                      Overlay(synced.public.content,
                              Both(a[1].metadataUpdates, a[2].metadataUpdates))

C9_Witness ==
    LET a == applied.public IN
    /\ Len(a) = 2
    /\ OneAfterTheOther
    /\ a[1].metadataUpdates = Object1("editedName", "y")
    /\ a[2].metadataUpdates = Object1("caption", "x")
    /\ ~pubMagicMetadata.data.enc
    /\ pubMagicMetadata.data.obj["caption"] = "x"
    /\ pubMagicMetadata.data.obj["editedName"] = "y"
    /\ pubMagicMetadata.data.obj["unknown"] = "z"
    /\ pubMagicMetadata.version = 4

\* C10: the merged value of an update has, for every key of the update,
\* the update's value, and for every other key what the tier had for it when
\* the update read it, keys unknown to this client included.
C10_ShallowMergeFrame ==
    \A p \in Updaters :
        LET u == updaters[p]
            existing == IF u.seen.present THEN u.seen.data.obj ELSE EmptyObject
        IN  u.request.present =>
              \A k \in Keys :
                 u.updatedMetadata[k] =
                    IF u.metadataUpdates[k] # Absent THEN u.metadataUpdates[k]
                    ELSE existing[k]

C10_Witness ==
    \E p \in Updaters, k \in Keys :
        LET u == updaters[p] IN
        /\ u.request.present
        /\ u.seen.present
        /\ u.metadataUpdates[k] \notin {Absent, Null, Undefined}
        /\ u.seen.data.obj[k] \notin {Absent, u.metadataUpdates[k]}
        /\ u.updatedMetadata[k] = u.metadataUpdates[k]
        /\ u.metadataUpdates["unknown"] = Absent
        /\ u.updatedMetadata["unknown"] = "z"

(***************************************************************************)
(* Properties of the chunked reader and of the streamed encryption         *)
(***************************************************************************)
\* The source's stream holds as many bytes as the source declares.
DeclaredSizeIsStreamSize == fileStream.fileSize = sourceBytes

\* S mod N, or N when S is a positive multiple of N.
LastChunkSize(size) ==
    IF size % streamEncryptionChunkSize = 0
    THEN streamEncryptionChunkSize
    ELSE size % streamEncryptionChunkSize

\* C11: however the underlying stream splits its S bytes into reads, the
\* chunks readUploadItem's stream emits before the end are all of exactly N
\* bytes, and once it has ended it has emitted exactly ceil(S / N) chunks,
\* all of N bytes but the last, which has S mod N bytes (N when S is a
\* positive multiple of N), holding the file's bytes in order; the declared
\* chunkCount of a source of size S is the number of chunks emitted.
C11_ChunkedReader ==
    /\ \A i \in 1..(Len(plain) - 1) : Len(plain[i]) = streamEncryptionChunkSize
    /\ ~flushed =>
          \A i \in 1..Len(plain) : Len(plain[i]) = streamEncryptionChunkSize
    /\ flushed =>
          /\ Len(plain) = Ceil(sourceBytes, streamEncryptionChunkSize)
          /\ Len(plain) > 0 =>
                Len(plain[Len(plain)]) = LastChunkSize(sourceBytes)
          /\ Concat(plain) = Bytes(0, sourceBytes)
          /\ DeclaredSizeIsStreamSize => fileStream.chunkCount = Len(plain)

\* A source of several chunks and a short last one has been read to its end
\* in reads that did not fall on chunk boundaries.
C11_Witness ==
    /\ flushed
    /\ DeclaredSizeIsStreamSize
    /\ Len(plain) >= 3
    /\ Len(plain[Len(plain)]) < streamEncryptionChunkSize
    /\ fileStream.chunkCount = Len(plain)

(***************************************************************************)
(* Properties of uploadToBucket and of upload()                            *)
(***************************************************************************)
IsMultipartRequest(e) ==
    e.op \in {"fetchMultipartUploadURLs", "putFilePart", "completeMultipartUpload"}

IsPutFile(e) == e.op = "putFile"

IsForFile(purpose) == purpose = "file"

\* The file object has been stored by the single PUT.
FilePutDone ==
    \/ pc \in {"getThumbnailUploadURL", "postFile"}
    \/ req = "thumbnail"
    \/ uploadResult \in {"uploaded", "uploadedWithStaticThumbnail"}

ChunkCountMismatch ==
    \/ Len(plain) > fileStream.chunkCount
    \/ flushed /\ Len(plain) < fileStream.chunkCount

\* C13: when the plaintext stream produces fewer or more chunks than the
\* declared chunkCount, encryptFileStream never completes an encrypted stream
\* of the declared chunkCount, and never encrypts a chunk that is not there.
C13_MismatchDetected ==
    ChunkCountMismatch =>
        /\ encState # "closed"
        /\ \A i \in 1..Len(pushCalls) : ~pushCalls[i].value.done

\* C14: the chunks are encrypted in stream order, each under the one
\* push-state as all the chunks before it left it; the call with the final
\* flag is the chunkCount-th and no other, so there is never more than one;
\* nothing is emitted after the chunk tagged final and the encrypted stream
\* is closed exactly when that chunk has been emitted.
C14_FinalChunkTag ==
    LET C == fileStream.chunkCount
    IN /\ \A i \in 1..Len(pushCalls) :
             /\ ~pushCalls[i].value.done =>
                   pushCalls[i].value.bytes = plain[i]
             /\ pushCalls[i].isFinal <=> i = C
       /\ \A i \in 1..Len(encrypted) :
             /\ encrypted[i].pushed = i - 1
             /\ encrypted[i].data = pushCalls[i].value.bytes
             /\ encrypted[i].final = pushCalls[i].isFinal
             /\ encrypted[i].final => i = Len(encrypted)
       /\ encState = "closed" <=>
             /\ Len(encrypted) = C
             /\ C >= 1
             /\ encrypted[C].final
       /\ encState = "closed" =>
             Cardinality({i \in 1..Len(pushCalls) : pushCalls[i].isFinal}) = 1

\* A stream of three chunks, as declared, has been encrypted to its end.
C14_Witness ==
    /\ DeclaredSizeIsStreamSize
    /\ fileStream.chunkCount = 3
    /\ Len(pushCalls) = 3
    /\ pushCalls[3].isFinal
    /\ encState = "closed"

\* Decrypting the chunks with the matching header succeeds and gives bytes:
\* each chunk opens under the pull-state the chunks before it left, the last
\* chunk and no other carries the final tag.
DecryptsTo(chunks, bytes) ==
    /\ \A i \in 1..Len(chunks) :
          /\ chunks[i].pushed = i - 1
          /\ chunks[i].final <=> i = Len(chunks)
    /\ Concat([i \in 1..Len(chunks) |-> chunks[i].data]) = bytes

StreamedRoundTripDone ==
    /\ encState = "closed"
    /\ DecryptsTo(encrypted, Bytes(0, sourceBytes))

\* C15: for a source of any size, 0 bytes included, whose stream is as long
\* as declared, the encrypted stream comes to its end, and what it emitted
\* decrypts to the source's bytes.
C15_StreamedRoundTrip == DeclaredSizeIsStreamSize => <>StreamedRoundTripDone

\* With a declared chunkCount of 0 the encrypted stream is never closed,
\* however many pulls are looked at.
EmptyStreamNeverCloses == fileStream.chunkCount = 0 => encState # "closed"

\* The same for the sources of one byte or more.
C15_NonEmptyRoundTrip ==
    (DeclaredSizeIsStreamSize /\ sourceBytes >= 1) => <>StreamedRoundTripDone

\* The values of UploadResult that upload() returns.
UploadResults ==
    {"unsupported", "tooLarge", "alreadyUploaded", "addedSymlink", "blocked",
     "largerThanAvailableStorage", "failed", "uploaded",
     "uploadedWithStaticThumbnail"}

IsPartOrLaterRequest(e) ==
    e.op \in {"completeMultipartUpload", "postFile", "putThumbnail", "putFile"}

\* C17: once the PUT of a part has returned without an eTag, that PUT is the
\* last request of the upload: the part is not PUT again, no later part is
\* PUT, neither the completion call nor postFile is made, nothing is added
\* to completedParts, and upload() returns "blocked".
C17_MissingETagBlocks ==
    err = eTagMissing =>
        /\ net # << >>
        /\ net[Len(net)].op = "putFilePart"
        /\ net[Len(net)].n = index + 1
        /\ Len(completedParts) = index
        /\ \A i \in 1..Len(net) :
              /\ ~IsPartOrLaterRequest(net[i])
              /\ IsPutFilePart(net[i]) => net[i].n <= index + 1
        /\ pc \in {"catch", "done"}
        /\ pc = "done" => uploadResult = "blocked"

\* The second part's PUT returned without an eTag, two more parts were to
\* follow, and upload() has returned.
C17_Witness ==
    /\ err = eTagMissing
    /\ pc = "done"
    /\ uploadResult = "blocked"
    /\ index = 1
    /\ partURLs = 3

IsRetrierRequest(e) ==
    e.op \in {"putFilePart", "completeMultipartUpload", "putFile", "putThumbnail"}

\* C18: every request of the retrier goes out in an attempt that found the
\* cancellation flag unset; an attempt that finds it set, the first or a
\* retry, issues no request and throws the cancellation error to upload()
\* without counting a failed attempt; after that nothing is attempted again.
C18_AbortableRetrier ==
    [][ /\ (net' # net /\ IsRetrierRequest(net'[Len(net')])) =>
              /\ pc = "attempt"
              /\ ~cancelled
              /\ pc' = "await"
        /\ (pc = "attempt" /\ cancelled) =>
              /\ net' = net
              /\ pc' = "catch"
              /\ err' = UPLOAD_CANCELLED
              /\ attempt' = attempt
              /\ failures' = failures
        /\ pc \in {"catch", "done", "rejected"} =>
              /\ pc' \in {"catch", "done", "rejected"}
              /\ net' = net
      ]_vars

\* The flag was set while a request was in flight, the request failed, and
\* the retry was aborted before it went out.
C18_Witness ==
    /\ cancelled
    /\ cancelAt.pc = "await"
    /\ attempt = 1
    /\ pc = "catch"
    /\ err = UPLOAD_CANCELLED
    /\ Len(net) = cancelAt.net

(***************************************************************************)
(* Properties of the check against the existing files                      *)
(***************************************************************************)
\* The record has a hash: a stored one that is not empty or, for a live
\* photo, an image hash and a video hash that are not empty.
HasHash(m) ==
    \/ m.hash.defined /\ m.hash.s # << >>
    \/ /\ m.fileType = "livePhoto"
       /\ m.imageHash.defined /\ m.imageHash.s # << >>
       /\ m.videoHash.defined /\ m.videoHash.s # << >>

\* That hash: the stored one, else imageHash:videoHash.
HashOf(m) ==
    IF m.hash.defined /\ m.hash.s # << >>
    THEN m.hash.s
    ELSE m.imageHash.s \o << ":" >> \o m.videoHash.s

SameAsset(f, g) ==
    /\ f.fileType = g.fileType
    /\ f.title = g.title
    /\ HasHash(f)
    /\ HasHash(g)
    /\ HashOf(f) = HashOf(g)

MatchedPositions == {matches[k] : k \in 1..Len(matches)}

\* C19: an existing file is kept as a match exactly when it and the asset
\* have the same file type, the same title, a hash each, and the same hash;
\* a record without a hash, on either side, matches nothing.
C19_DedupEquality ==
    dedupPc # "extractAssetMetadata" =>
        /\ \A i \in 1..Len(existingFiles) :
              /\ i \in MatchedPositions <=>
                    SameAsset(existingFiles[i].metadata, assetMetadata)
              /\ ~HasHash(existingFiles[i].metadata) => i \notin MatchedPositions
        /\ ~HasHash(assetMetadata) => matches = << >>

\* A live photo with the image and video hashes of old clients has matched
\* an existing file that stores the same hash in one field.
C19_Witness ==
    /\ dedupPc # "extractAssetMetadata"
    /\ matches = << 1 >>
    /\ ~assetMetadata.hash.defined
    /\ assetMetadata.imageHash.defined
    /\ existingFiles[1].metadata.hash = Str(<< "i", ":", "v" >>)

IsAfterCheck(step) ==
    step.op \in {"readAsset", "encryptFile", "getUploadURL", "putFile", "postFile"}

MatchInDestination ==
    \E i \in MatchedPositions : existingFiles[i].collectionID = collection.id

\* What holds of a match in either statement of C20: nothing of the rest of
\* the pipeline runs; with a match in the destination collection nothing is
\* called at all and that match is returned as alreadyUploaded; without one,
\* addToCollection is called once, with a matching file retargeted to the
\* destination collection.
ShortCircuit ==
    /\ SelectSeq(steps, IsAfterCheck) = << >>
    /\ IF MatchInDestination
       THEN /\ steps = << >>
            /\ dedupPc = "done"
            /\ uploadResponse.uploadResult = "alreadyUploaded"
            /\ uploadResponse.uploadedFile \in MatchedPositions
            /\ existingFiles[uploadResponse.uploadedFile].collectionID = collection.id
       ELSE /\ Len(steps) = 1
            /\ steps[1].op = "addToCollection"
            /\ steps[1].file \in MatchedPositions
            /\ steps[1].collectionID = collection.id
            /\ dedupPc \in {"addToCollection", "done"}

\* C20 as stated: on a match upload() short-circuits, and without a match in
\* the destination collection it returns addedSymlink.
C20_DedupShortCircuit ==
    (dedupPc # "extractAssetMetadata" /\ matches # << >>) =>
        /\ ShortCircuit
        /\ (~MatchInDestination /\ dedupPc = "done") =>
              uploadResponse.uploadResult = "addedSymlink"

\* C20, amended: on a match upload() short-circuits, and without a match in
\* the destination collection it returns addedSymlink, with the retargeted
\* copy, once addToCollection has returned; when addToCollection throws, the
\* catch block of upload() decides the result.
C20_DedupShortCircuitUnlessLinkFails ==
    (dedupPc # "extractAssetMetadata" /\ matches # << >>) =>
        /\ ShortCircuit
        /\ (~MatchInDestination /\ dedupPc = "done") =>
              \/ /\ uploadResponse.uploadResult = "addedSymlink"
                 /\ uploadResponse.uploadedFile = steps[1].file
                 /\ uploadResponse.collectionID = collection.id
              \/ uploadResponse.uploadResult = "failed"

\* Two files match, the first in another collection and the second in the
\* destination collection: the second is returned as already uploaded.
C20_Witness ==
    /\ matches = << 1, 2 >>
    /\ existingFiles[1].collectionID # collection.id
    /\ existingFiles[2].collectionID = collection.id
    /\ uploadResponse.uploadResult = "alreadyUploaded"
    /\ uploadResponse.uploadedFile = 2

(***************************************************************************)
(* Properties of areLivePhotoAssets                                        *)
(***************************************************************************)
OneImageOneVideo ==
    {assetF.fileType, assetG.fileType} = {"image", "video"}

\* C21: areLivePhotoAssets returns false for two assets of different
\* collections or path prefixes, for two assets that are not one image and
\* one video, and when a size read is above 20 MiB, whatever the names and
\* the dates; in the first three cases without reading anything.
C21_LivePhotoRejections ==
    /\ areLivePhoto = "true" =>
          /\ assetF.collectionID = assetG.collectionID
          /\ assetF.pathPrefix = assetG.pathPrefix
          /\ OneImageOneVideo
          /\ sizes # NotRead
          /\ sizes[1] <= 20
          /\ sizes[2] <= 20
    /\ (livePc # "start" /\ (\/ assetF.collectionID # assetG.collectionID
                             \/ assetF.pathPrefix # assetG.pathPrefix
                             \/ ~OneImageOneVideo)) =>
          /\ livePc = "done"
          /\ areLivePhoto = "false"
          /\ sizes = NotRead
    /\ (sizes # NotRead /\ (sizes[1] > 20 \/ sizes[2] > 20)) =>
          /\ livePc = "done"
          /\ areLivePhoto = "false"
          /\ dates = NotRead

\* An image and a video of the same collection and prefix, with names that
\* pair, were rejected because the video is just above 20 MiB.
C21_Witness ==
    /\ assetF.fileType = "image"
    /\ assetG.fileType = "video"
    /\ sizes = << 20, 21 >>
    /\ areLivePhoto = "false"
    /\ livePc = "done"

\* The two assets passed the type, name and size checks and the dates were
\* obtained.
PassedToDates == livePc = "done" /\ dates # NotRead

\* C22 as stated: with a creation timestamp on exactly one side the pairing
\* is disqualified.
C22_OneSidedTimestampRejects ==
    (PassedToDates /\ (dates[1] = NoTimestamp) # (dates[2] = NoTimestamp)) =>
        areLivePhoto = "false"

\* C22, amended: when the two creation dates are not both there and less
\* than a day apart, the pairing is disqualified if a metadata JSON was found
\* for both assets or for neither, and accepted if one was found for exactly
\* one of them; dates both there and less than a day apart always pair.
C22_DateCheckUnlessOneSidedJSON ==
    PassedToDates =>
        LET sameish ==
              /\ dates[1] > 0
              /\ dates[2] > 0
              /\ dates[1] - dates[2] < 24
              /\ dates[2] - dates[1] < 24
            oneSided == jsons[1].found # jsons[2].found
        IN areLivePhoto = (IF sameish \/ oneSided THEN "true" ELSE "false")

\* A metadata JSON with a creation time was found for the first asset alone,
\* the second has no creation date at all, and the two were paired.
C22_Witness ==
    /\ PassedToDates
    /\ jsons[1].found
    /\ ~jsons[2].found
    /\ dates[1] = 30
    /\ dates[2] = NoTimestamp
    /\ areLivePhoto = "true"

\* Caller c leaves a call in which it awaited a refill that left the pool
\* holding some URL twice.
EndsCallAfterDuplicates(c) ==
    /\ callers[c].pc = "resumed"
    /\ callers'[c].pc = "idle"
    /\ refills[callers[c].awaiting].duplicates

\* C23: a getUploadURL or setFileCount call that awaited a refill which left
\* the pool holding two entries with the same url throws "Duplicate upload
\* URLs detected" and takes no URL from the pool.
C23_DuplicateURLsThrow ==
    [][\A c \in Callers :
          EndsCallAfterDuplicates(c) =>
              /\ callers'[c].outcome = "Duplicate upload URLs detected"
              /\ uploadURLs' = uploadURLs]_vars

\* Both callers awaited the one refill, which left the pool with a URL twice,
\* and both calls threw; the pool is as the refill left it.
C23_Witness ==
    /\ Len(refills) = 1
    /\ refills[1].duplicates
    /\ uploadURLs = << "u4", "u4" >>
    /\ calls = 2
    /\ \A c \in Callers :
          /\ callers[c].pc = "idle"
          /\ callers[c].outcome = "Duplicate upload URLs detected"

(***************************************************************************)
(* Properties of the start of upload()                                     *)
(***************************************************************************)
\* upload() has returned "tooLarge" after reading the details and nothing
\* else: no metadata extraction, hash, encryption, PUT or finalize call.
TooLargeDoesNothing ==
    extractResult = "tooLarge" =>
        /\ extractPc = "done"
        /\ performed = << "readAssetDetails" >>
        /\ hashed = << >>

\* The size of the asset, for a live photo the sum of its two parts, is
\* above 10 GiB.
ExceedsCeiling ==
    (IF uploadAsset.isLivePhoto
     THEN uploadAsset.image + uploadAsset.video
     ELSE uploadAsset.image) > 10

\* C24: upload() returns "tooLarge" when and only when the size of the asset
\* (the sum of the two sizes for a live photo) exceeds 10 GiB, and then it
\* has made no call after reading the details.
C24_TooLargeIffExceeds ==
    /\ extractResult = "tooLarge" => ExceedsCeiling
    /\ (assetSize # -1 /\ ExceedsCeiling) => extractResult = "tooLarge"
    /\ TooLargeDoesNothing

\* "tooLarge" for an asset whose size is the ceiling itself.
C24_AtCeiling ==
    /\ extractResult = "tooLarge"
    /\ assetSize = 10
    /\ uploadAsset.isLivePhoto

\* What the code does: "tooLarge" exactly for the sizes of 10 GiB and more
\* that were read.
TooLargeIffAtCeiling ==
    /\ extractResult = "tooLarge" => assetSize >= 10
    /\ assetSize >= 10 => extractResult = "tooLarge"

\* The calls of computeHash whose stream delivered a number of chunks other
\* than the declared one.
MiscountedHashes ==
    {i \in 1..Len(hashed) : hashed[i].read.chunkCount # Len(hashed[i].read.chunks)}

\* C28: computeHash throws when its stream delivers fewer chunks than the
\* declared count and when it delivers more, and returns no hash then; the
\* upload ends with "failed" and nothing was encrypted or uploaded.
C28_HashChunkCount ==
    /\ \A i \in 1..Len(hashed) :
          LET read == hashed[i].read
              result == hashed[i].result
          IN /\ Len(read.chunks) < read.chunkCount =>
                    result = [thrown |-> "Less chunks than expected", hash |-> << >>]
             /\ Len(read.chunks) > read.chunkCount =>
                    result = [thrown |-> "More chunks than expected", hash |-> << >>]
             /\ Len(read.chunks) = read.chunkCount => result.thrown = "none"
    /\ MiscountedHashes # {} =>
          /\ MiscountedHashes = {Len(hashed)}
          /\ extractPc \in {"catch", "done"}
          /\ extractPc = "done" => extractResult = "failed"
          /\ extractPc = "catch" => extractResult = "none"
          /\ \A i \in 1..Len(performed) :
                performed[i] \in {"readAssetDetails", "extractMetadata", "computeHash"}
          /\ extractedMetadata.fileType # "livePhoto"

\* The video of a live photo delivered one chunk more than declared, after
\* the image was hashed, and the upload has ended with "failed".
C28_Witness ==
    /\ Len(hashed) = 2
    /\ hashed[2].read = [chunkCount |-> 1, chunks |-> << "x", "y" >>]
    /\ hashed[2].result.thrown = "More chunks than expected"
    /\ extractPc = "done"
    /\ extractResult = "failed"

\* The image delivered fewer chunks than declared.
C28_WitnessLess ==
    /\ Len(hashed) = 1
    /\ hashed[1].result.thrown = "Less chunks than expected"
    /\ extractResult = "failed"

\* The metadata of a live photo has been extracted.
LivePhotoExtracted ==
    /\ extractedMetadata.fileType = "livePhoto"
    /\ Len(hashed) = 2

\* The existing file is a live photo as an old web client recorded it, with
\* the hashes of the same image and of the same video and no hash field.
LegacyRecordOfSameParts ==
    /\ existingFile.metadata.fileType = "livePhoto"
    /\ existingFile.metadata.title = extractedMetadata.title
    /\ ~existingFile.metadata.hash.defined
    /\ existingFile.metadata.imageHash = [defined |-> TRUE, s |-> hashed[1].result.hash]
    /\ existingFile.metadata.videoHash = [defined |-> TRUE, s |-> hashed[2].result.hash]

\* C29: the hash of a live photo is the hash of its image, a colon and the
\* hash of its video, each the hash of that part's chunks alone;
\* metadataHash of a legacy record holding the two hashes separately is the
\* same string, so the new upload is found to match the legacy record.
C29_LivePhotoHash ==
    LivePhotoExtracted =>
        /\ hashed[1].item = "image"
        /\ hashed[2].item = "video"
        /\ hashed[1].result.hash = << "#" >> \o hashed[1].read.chunks
        /\ hashed[2].result.hash = << "#" >> \o hashed[2].read.chunks
        /\ extractedMetadata.hash =
              [defined |-> TRUE,
               s |-> hashed[1].result.hash \o << ":" >> \o hashed[2].result.hash]
        /\ LegacyRecordOfSameParts =>
              /\ metadataHash(existingFile.metadata) = extractedMetadata.hash
              /\ extractPc \in {"areFilesSame", "addToCollection", "catch",
                                 "done", "rejected"}
              /\ \A i \in 1..Len(performed) :
                    performed[i] \notin {"readAsset", "encryptFile",
                                         "uploadToBucket", "postFile"}
              /\ extractPc = "done" =>
                    extractResult \in {"alreadyUploaded", "addedSymlink", "failed"}
              /\ (extractPc = "done" /\ existingFile.collectionID = 1) =>
                    extractResult = "alreadyUploaded"

\* A live photo whose image and video differ was found to be the legacy
\* record of the same collection.
C29_Witness ==
    /\ LivePhotoExtracted
    /\ LegacyRecordOfSameParts
    /\ hashed[1].read.chunks = << "x" >>
    /\ hashed[2].read.chunks = << "x", "y" >>
    /\ extractResult = "alreadyUploaded"

\* The in-memory envelope update p returned holds as its data the object
\* that was encrypted and sent, and counts its keys.
LocalIsSent(p) ==
    LET u == updaters[p]
    IN /\ u.result.data.enc = FALSE
       /\ u.result.data.obj = decryptMetadataJSON(u.request.data)
       /\ Cardinality(KeysOf(u.result.data.obj)) = u.result.count
       /\ u.result.count = u.request.count

\* C25: after a successful interactive update of either tier the data of the
\* synthesized in-memory envelope is exactly the key/value set that was
\* encrypted and sent, so that its keys number the envelope's count, also
\* when the update has a null-valued key.
C25_LocalEqualsSent ==
    \A p \in Updaters : updaters[p].pc = "returned" => LocalIsSent(p)

\* The public tier alone has the property.
PublicLocalIsSent ==
    \A p \in Updaters :
        (updaters[p].pc = "returned" /\ updaters[p].tier = "public") =>
            LocalIsSent(p)

\* A private update with a null-valued key has returned an envelope whose
\* data keeps the key that was not sent.
C25_NullKeyKept ==
    \E p \in Updaters :
        /\ updaters[p].pc = "returned"
        /\ updaters[p].tier = "private"
        /\ updaters[p].metadataUpdates["visibility"] = Null
        /\ updaters[p].result.data.obj["visibility"] = Null
        /\ decryptMetadataJSON(updaters[p].request.data)["visibility"] = Absent
        /\ Cardinality(KeysOf(updaters[p].result.data.obj)) = updaters[p].result.count + 1

\* The error of a write the remote rejected for its version.
ConflictError == [name |-> "HTTPError", res |-> "conflict"]

C26_WitnessOther ==
    \E p \in Updaters :
        /\ updaters[p].pc = "threw"
        /\ updaters[p].response = "error"
        /\ updaters[p].error.name = "HTTPError"

\* The step is one of update p, an update of tier t.
StepOfUpdate(p, t) ==
    /\ updaters[p].pc # updaters'[p].pc
    /\ t \in {updaters[p].tier, updaters'[p].tier}

\* C27: the tiers are versioned independently. No step of an update of the
\* private tier changes the file's public envelope (version, count, data,
\* header) or what the remote stores for the public tier, and no step of an
\* update of the public tier changes the private envelope or what the remote
\* stores for the private tier.
C27_TiersIndependent ==
    [][\A p \in Updaters :
          /\ StepOfUpdate(p, "private") =>
                /\ pubMagicMetadata' = pubMagicMetadata
                /\ remote'.public = remote.public
          /\ StepOfUpdate(p, "public") =>
                /\ magicMetadata' = magicMetadata
                /\ remote'.private = remote.private]_vars

\* Both tiers have been updated once since the last sync, each from its own
\* version to the next.
C27_Witness ==
    /\ Len(applied.private) = 1
    /\ Len(applied.public) = 1
    /\ magicMetadata.version = 2
    /\ pubMagicMetadata.version = 3
    /\ remote.private.version = 2
    /\ remote.public.version = 3

(***************************************************************************)
(* The progress reported by uploadToBucket                                 *)
(***************************************************************************)
\* The percentage reported last.
LastProgress == progress[Len(progress)]

\* The values reported for successive parts never go down.
ProgressNonDecreasing ==
    \A i \in 1..(Len(progress) - 1) : Leq(progress[i], progress[i + 1])

\* C30: every percentage passed to updateUploadProgress lies in [0, 100], the
\* values for successive parts are non-decreasing, none exceeds maxPercent,
\* maxPercent lies in [95, 100), and the last value reported by an
\* uploadToBucket that went through equals maxPercent.
C30_ProgressBounds ==
    /\ \A i \in 1..Len(progress) :
          /\ Leq(FromInt(0), progress[i])
          /\ Leq(progress[i], FromInt(100))
          /\ Leq(progress[i], FromInt(maxPercent))
    /\ ProgressNonDecreasing
    /\ progressPc # "uploadToBucket" => maxPercent \in 95..99
    /\ progressPc = "returned" => Same(LastProgress, FromInt(maxPercent))

\* C30: Math.random() is so close to 1 that maxPercent is 100.
C30_NothingKeptAside ==
    /\ progressPc = "returned"
    /\ maxPercent = 100

\* C30: all 11 parts of a file are uploaded, with as many part URLs, and the
\* last percentage is less than the maxPercent of 98.
C30_LastBelowMaxPercent ==
    /\ progressPc = "returned"
    /\ maxPercent = 98
    /\ uploadPartCount(progressFile) = 11
    /\ partURLCount = 11
    /\ ~Leq(FromInt(maxPercent), LastProgress)

\* C30: all 37 parts of a file are uploaded, with as many part URLs, and the
\* last percentage is more than the maxPercent of 99.
C30_LastAboveMaxPercent ==
    /\ progressPc = "returned"
    /\ maxPercent = 99
    /\ uploadPartCount(progressFile) = 37
    /\ partURLCount = 37
    /\ ~Leq(LastProgress, FromInt(maxPercent))

(***************************************************************************)
(* Cancellation and the network                                            *)
(***************************************************************************)
\* The requests that upload the asset or make it a file: the PUTs, the
\* completion call and the finalize call.
UploadWork ==
    {"putFile", "putFilePart", "putThumbnail", "completeMultipartUpload",
     "postFile"}

\* The requests issued by the step.
IssuedByStep ==
    {net'[i].op : i \in (Len(net) + 1)..Len(net')}

\* Where the pipeline polls the flag next: between the stages of upload(),
\* before an attempt of the retrier, at the boundary after a part that got
\* its tag while more part URLs are left, and after uploadToBucket.
PollsFlagInStep ==
    \/ pc \in {"uploadToBucket", "attempt"}
    \/ /\ pc = "await"
       /\ req = "part"
       /\ Len(completedParts') = Len(completedParts) + 1
       /\ index' < partURLs
    \/ /\ pc = "await"
       /\ req = "thumbnail"
       /\ failures' = failures

\* C31: once the cancellation flag is set the pipeline starts no PUT of the
\* file, of a part or of the thumbnail, no completion call and no finalize
\* call; and every step that comes to a part boundary, to an attempt of the
\* retrier or to the gap between two stages throws the cancellation error.
C31_CancelledStartsNoUploadWork ==
    [][cancelled =>
          /\ IssuedByStep \cap UploadWork = {}
          /\ PollsFlagInStep => pc' = "catch" /\ err' = UPLOAD_CANCELLED]_vars

\* C31: the flag was set while the PUT of a part was in flight; the part got
\* its tag, more parts were left, and the pipeline threw at the boundary
\* without another request.
C31_Witness ==
    /\ cancelled
    /\ cancelAt.pc = "await"
    /\ cancelAt.req = "part"
    /\ Len(completedParts) = cancelAt.parts + 1
    /\ index < partURLs
    /\ streamPos < encryptedData.chunkCount
    /\ pc = "catch"
    /\ err = UPLOAD_CANCELLED
    /\ \A i \in (cancelAt.net + 1)..Len(net) : net[i].op = "eTag"

(***************************************************************************)
(* The pool and the pipelines that took URLs from it                       *)
(***************************************************************************)
\* In the step the upload of c's asset ends as failed or cancelled, with
\* URLs it had taken from the pool.
EndsAbandoning(c) ==
    /\ held[c] # << >>
    /\ held'[c] = << >>
    /\ callers'[c].outcome \in {"failed", "cancelled"}

\* In the step a refill request is answered and its URLs are appended.
RefillAppends ==
    /\ \E i \in InFlight : refills'[i].state = "fulfilled"
    /\ Len(uploadURLs') > Len(uploadURLs)
    /\ SubSeq(uploadURLs', 1, Len(uploadURLs)) = uploadURLs

\* In the step a call of getUploadURL pops the last URL and returns it.
GetUploadURLPops ==
    /\ uploadURLs # << >>
    /\ uploadURLs' = SubSeq(uploadURLs, 1, Len(uploadURLs) - 1)
    /\ \E c \in Callers :
          /\ callers'[c].outcome = uploadURLs[Len(uploadURLs)]
          /\ held'[c] = Append(held[c], uploadURLs[Len(uploadURLs)])

\* In the step logout clears the pool.
LogoutClears ==
    /\ logouts' = logouts + 1
    /\ uploadURLs' = << >>

\* C32: an upload that is cancelled or fails after it took URLs from the pool
\* puts none of them back, and the pool changes only by a refill appending
\* URLs, by getUploadURL popping one, or by logout clearing it.
C32_AbandonedURLsNotReturned ==
    [][/\ \A c \in Callers : EndsAbandoning(c) => uploadURLs' = uploadURLs
       /\ uploadURLs' # uploadURLs =>
             RefillAppends \/ GetUploadURLPops \/ LogoutClears]_vars

\* C32: a pipeline took a URL and its upload was cancelled; the pool still
\* holds the other URL of the refill and nothing else.
C32_Witness ==
    \E c \in Callers :
        /\ callers[c].outcome = "cancelled"
        /\ held[c] = << >>
        /\ uploadURLs = << "u2" >>
        /\ \E i \in 1..Len(refills) : refills[i].state = "fulfilled"

(***************************************************************************)
(* The waiters of a shared refill                                          *)
(***************************************************************************)
\* In the step c leaves the call of getUploadURL in which it awaited a
\* refill that was answered with at least n URLs.
ServedAfterRefill(c, n) ==
    /\ callers[c].pc = "resumed"
    /\ callers[c].op = "getUploadURL"
    /\ refills[callers[c].awaiting].state = "fulfilled"
    /\ refills[callers[c].awaiting].pushed >= n
    /\ callers'[c].pc = "idle"

\* C33 as stated: every getUploadURL call that found the pool empty and
\* awaited a refill answered with at least one URL returns a URL.
C33_EveryWaiterServed ==
    [][\A c \in Callers :
          ServedAfterRefill(c, 1) => IsUploadURL(callers'[c].outcome)]_vars

\* C33: every getUploadURL call that found the pool empty and awaited a
\* refill returns a URL when the refill was answered with at least as many
\* URLs as getUploadURL calls awaited it and left no URL twice in the pool.
C33_WaitersServedByEnoughURLs ==
    [][\A c \in Callers :
          /\ ServedAfterRefill(c, refills[callers[c].awaiting].getters)
          /\ ~refills[callers[c].awaiting].duplicates
          => IsUploadURL(callers'[c].outcome)]_vars

\* C33: two getUploadURL calls awaited one refill, answered with two URLs,
\* and each has returned one of them.
C33_Witness ==
    /\ \A c \in Callers :
          /\ callers[c].pc = "idle"
          /\ callers[c].op = "none"
          /\ callers[c].awaiting = 0
    /\ callers["a"].outcome = "u3"
    /\ callers["b"].outcome = "u2"
    /\ \E i \in 1..Len(refills) :
          /\ refills[i].getters = 2
          /\ refills[i].pushed = 2
          /\ refills[i].state = "fulfilled"
    /\ uploadURLs = << >>

\* C33: two getUploadURL calls awaited one refill, answered with one URL;
\* one has returned it and the other has thrown.
C33_WaiterNotServed ==
    /\ \E c \in Callers : callers[c].outcome = "u1"
    /\ \E c \in Callers : callers[c].outcome = NoUploadURL
    /\ \E i \in 1..Len(refills) :
          /\ refills[i].getters = 2
          /\ refills[i].pushed = 1
          /\ refills[i].state = "fulfilled"
          /\ ~refills[i].duplicates

(***************************************************************************)
(* logout() and the refill requests                                        *)
(***************************************************************************)
\* In the step a refill request is started.
RefillStarts == Len(refills') = Len(refills) + 1

\* In the step a refill request that was started after the last logout is
\* answered.
FreshRefillAnswered ==
    \E i \in InFlight \ stale : refills'[i].state # "pending"

\* C34: logout leaves the pool empty, after a logout the pool gets URLs only
\* from the answer to a refill request started after the logout (a request
\* that was in flight at the logout adds none), and a refill request started
\* after a logout is the only one in flight.
C34_LogoutVersusRefill ==
    [][/\ LogoutClears => uploadURLs' = << >>
       /\ logouts > 0 /\ Len(uploadURLs') > Len(uploadURLs) => FreshRefillAnswered
       /\ logouts > 0 /\ RefillStarts => Cardinality(InFlight') = 1]_vars

\* C34: the request in flight at the logout was answered with URLs after it,
\* and the pool holds them.
C34_StaleRefillFillsPool ==
    /\ logouts = 1
    /\ Len(refills) = 1
    /\ stale = {1}
    /\ refills[1].state = "fulfilled"
    /\ uploadURLs = << "u2", "u3" >>

\* C34: a refill request started after the logout is in flight together with
\* the one that was in flight at the logout.
C34_TwoRefillsInFlight ==
    /\ logouts = 1
    /\ stale = {1}
    /\ InFlight = {1, 2}

(***************************************************************************)
(* The file's versions against the remote's                                *)
(***************************************************************************)
\* The file's envelope of tier t.
LocalEnvelope(t) == IF t = "private" THEN magicMetadata ELSE pubMagicMetadata

\* The file's version of no tier is ahead of the one the remote stores.
LocalVersionNotAhead ==
    \A t \in Tiers : LocalEnvelope(t).version <= remote[t].version

\* In the step the update p, whose write the remote accepted, puts its
\* envelope in the file.
UpdateSucceeds(p) ==
    /\ updaters[p].pc = "responded"
    /\ updaters'[p].pc \in {"returned", "reread"}

\* After the step the file's version of the tier of p is the remote's.
CaughtUpAfter(p) ==
    LocalEnvelope(updaters[p].tier)'.version = remote'[updaters[p].tier].version

\* What the remote stores for the tier of p is what p wrote: it has accepted
\* no write of the tier since.
LastAccepted(p) ==
    remote[updaters[p].tier].header = updaters[p].request.header

\* C35 as stated: the file's version of a tier is never ahead of the
\* remote's, and is the remote's after each successful update.
C35_LocalVersionEqualsAfterSuccess ==
    /\ LocalVersionNotAhead
    /\ [][/\ LocalVersionNotAhead'
          /\ \A p \in Updaters : UpdateSucceeds(p) => CaughtUpAfter(p)]_vars

\* C35: the file's version of a tier is never ahead of the remote's, and is
\* the remote's after each successful update whose write is the last one
\* the remote accepted for the tier.
C35_LocalVersionNeverAhead ==
    /\ LocalVersionNotAhead
    /\ [][/\ LocalVersionNotAhead'
          /\ \A p \in Updaters :
                UpdateSucceeds(p) /\ LastAccepted(p) => CaughtUpAfter(p)]_vars

\* C35: of two updates of the private tier under way together the remote
\* accepted one and rejected the other; the accepted one has returned and the
\* file's version is the remote's.
C35_Witness ==
    \E p \in Updaters, q \in Updaters :
        /\ updaters[p].tier = "private"
        /\ updaters[p].pc = "returned"
        /\ updaters[q].tier = "private"
        /\ updaters[q].pc = "responded"
        /\ updaters[q].response = "conflict"
        /\ remote.private.header = updaters[p].request.header
        /\ magicMetadata.version = remote.private.version

\* C35: an update has returned after the remote accepted a later write of
\* the tier, and the file's version is behind the remote's.
C35_BehindAfterSuccess ==
    \E p \in Updaters :
        /\ updaters[p].tier = "private"
        /\ updaters[p].pc = "returned"
        /\ remote.private.header # updaters[p].request.header
        /\ magicMetadata.version < remote.private.version

(***************************************************************************)
(* The completion call and the object it completes                         *)
(***************************************************************************)
\* The requests of kind op that went out.
Issued(op) == {i \in 1..Len(net) : net[i].op = op}

\* The chunks in the bodies of the part PUTs whose tag came back.
AcknowledgedChunks ==
    UNION {{net[i].data[j] : j \in 1..Len(net[i].data)} :
              i \in {k \in Issued("putFilePart") :
                        \E a \in Issued("eTag") : a > k /\ net[a].n = net[k].n}}

\* When the completion call has gone out, every part URL's PUT returned a tag
\* and the parts hold every chunk of the stream, which was read to its end.
CompletionOnlyForCompleteObject ==
    Issued("completeMultipartUpload") # {} =>
        /\ index = partURLs
        /\ Len(completedParts) = partURLs
        /\ \A k \in 1..partURLs :
              /\ completedParts[k].eTag # ""
              /\ \E a \in Issued("eTag") :
                    net[a].n = k /\ net[a].tag = completedParts[k].eTag
        /\ streamPos = encryptedData.chunkCount
        /\ AcknowledgedChunks = 1..encryptedData.chunkCount

\* The backend answered with fewer part URLs than were asked for.
FewerPartURLs ==
    partURLs >= 0 /\ partURLs < uploadPartCount(encryptedData)

\* With fewer part URLs no completion call goes out, and once the last of
\* them is used the upload has failed with "More chunks than expected".
FewerPartURLsFail ==
    FewerPartURLs =>
        /\ Issued("completeMultipartUpload") = {}
        /\ Issued("postFile") = {}
        /\ index = partURLs /\ pc # "finalRead" =>
              /\ pc \in {"catch", "done", "rejected"}
              /\ err = MoreChunks
              /\ pc = "done" => uploadResult = "failed"

\* No part PUT has an empty body.
NoEmptyPart == \A i \in Issued("putFilePart") : net[i].data # << >>

\* C36: the completion call goes out only when every part PUT returned a
\* non-empty tag and the parts hold the whole stream; with fewer part URLs
\* than needed the upload fails with "More chunks than expected" without a
\* completion call; and no part of zero bytes is uploaded.
C36_CompletionOnlyForCompleteObject ==
    /\ CompletionOnlyForCompleteObject
    /\ FewerPartURLsFail
    /\ NoEmptyPart

\* C36: the stream's last chunk went out with the last but one part URL; the
\* PUT to the last part URL has an empty body, and the completion call has
\* gone out with that part in its list.
C36_EmptyPartUploaded ==
    /\ partURLs = uploadPartCount(encryptedData) + 1
    /\ Issued("completeMultipartUpload") # {}
    /\ \E i \in Issued("putFilePart") :
          /\ net[i].n = partURLs
          /\ net[i].data = << >>
          /\ \E k \in 1..Len(completedParts) :
                completedParts[k].partNumber = partURLs

(***************************************************************************)
(* postFile comes last and once                                            *)
(***************************************************************************)
FileObjectWork == {"putFile", "putFilePart", "eTag", "completeMultipartUpload"}

Uploaded == {"uploaded", "uploadedWithStaticThumbnail"}

\* The requests went out in the order file object, thumbnail, postFile, and
\* postFile at most once, after a thumbnail PUT that came after the single
\* PUT or the completion call.
PostFileLast ==
    /\ Cardinality(Issued("postFile")) <= 1
    /\ \A i \in Issued("putThumbnail") :
          /\ \E f \in Issued("putFile") \cup Issued("completeMultipartUpload") :
                f < i
          /\ \A f \in 1..Len(net) : net[f].op \in FileObjectWork => f < i
    /\ \A i \in Issued("postFile") :
          /\ \E t \in Issued("putThumbnail") : t < i
          /\ \A t \in 1..Len(net) : t # i => t < i
    /\ uploadResult \in Uploaded => Issued("postFile") # {}

\* The request in flight returns 2xx in the step.
Succeeds(r) ==
    /\ pc = "await"
    /\ req = r
    /\ pc' # "catch"
    /\ failures' = failures

\* The thumbnail's URL is asked for when the single PUT or the completion
\* call has succeeded, postFile is called when the thumbnail's PUT has, and
\* the result is set when postFile has.
EachAfterSuccess ==
    /\ pc' = "getThumbnailUploadURL" /\ pc # pc' =>
          Succeeds("file") \/ Succeeds("complete")
    /\ req' = "thumbnail" /\ req # req' => pc = "getThumbnailUploadURL"
    /\ Issued("postFile")' # Issued("postFile") =>
          Succeeds("thumbnail") /\ pc' = "postFile"
    /\ uploadResult' \in Uploaded /\ uploadResult' # uploadResult =>
          /\ pc = "postFile"
          /\ pc' = "done"
          /\ err' = err

\* C37: within one upload() postFile is called at most once, and only after
\* the file object's upload (the single PUT, or every part and the completion
\* call) and then the thumbnail's PUT have succeeded; the result is
\* "uploaded" or "uploadedWithStaticThumbnail" only after postFile succeeded.
C37_FinalizeLastAndOnce ==
    /\ PostFileLast
    /\ [][PostFileLast' /\ EachAfterSuccess]_vars

\* C37: a multipart upload whose thumbnail PUT failed once and was retried
\* has returned "uploaded" after its one postFile.
C37_Witness ==
    /\ pc = "done"
    /\ uploadResult = "uploaded"
    /\ Issued("completeMultipartUpload") # {}
    /\ Cardinality(Issued("putThumbnail")) = 2
    /\ Cardinality(Issued("postFile")) = 1
    /\ net[Len(net)].op = "postFile"

(***************************************************************************)
(* The memories cache: one recomputation at a time, and queued updates     *)
(***************************************************************************)
\* The callers between the start and the end of the recomputation.
Recomputing == {c \in UpdateCallers : InBody(c)}

\* C38: at most one caller of updateCache is in the recomputation at a time,
\* and isUpdatingMemories is true exactly while one is: it is false again
\* when the recomputation has ended, whether by completing, by the early
\* return on an empty result, or by an exception.
C38_UpdateIsExclusive ==
    /\ Cardinality(Recomputing) <= 1
    /\ isUpdatingMemories <=> Recomputing # {}
    /\ \A c \in Recomputing : Head(memoriesUpdateLock) = c

\* C38: a caller waited for the lock while the other's recomputation ran; that
\* recomputation has ended with an exception, the flag is false and the
\* waiting caller is next.
C38_Witness ==
    \E c \in UpdateCallers, d \in UpdateCallers :
        /\ cacheUpdates[c].exit = "exception"
        /\ cacheUpdates[c].pc = "idle"
        /\ cacheUpdates[d].pc = "waiting"
        /\ memoriesUpdateLock = << d >>
        /\ ~isUpdatingMemories

\* The recomputation has ended by the early return, and by completing.
EndedEmpty ==
    \E c \in UpdateCallers : cacheUpdates[c].exit = "empty" /\ ~isUpdatingMemories

EndedCompleted ==
    \E c \in UpdateCallers :
        cacheUpdates[c].exit = "completed" /\ ~isUpdatingMemories

\* The recomputation of c ends in the step.
BodyFinishes(c) == InBody(c) /\ ~InBody(c)'

\* updateCache of c returns with "No update needed" in the step.
NoUpdateNeeded(c) ==
    /\ cacheUpdates'[c] # cacheUpdates[c]
    /\ cacheUpdates'[c].pc = "idle"
    /\ cacheUpdates'[c].exit = "noUpdateNeeded"

\* C39: when queueUpdateCache() was called during a recomputation,
\* _shouldUpdate is set when that recomputation has ended, and no unforced
\* updateCache returns with "No update needed" before a recomputation has
\* started after the call.
C39_QueuedUpdateNotLost ==
    [][\A c \in UpdateCallers :
          /\ BodyFinishes(c) /\ queuedWhileUpdating' => shouldUpdate'
          /\ NoUpdateNeeded(c) => ~queuedWhileUpdating]_vars

\* C39: queueUpdateCache() was called from outside during the one
\* recomputation there was, which has completed; _shouldUpdate is false and
\* the unforced updateCache that came next has returned with "No update
\* needed".
C39_QueuedUpdateLost ==
    \E c \in UpdateCallers, d \in UpdateCallers :
        /\ cacheUpdates[c] =
              [pc |-> "idle", forced |-> FALSE, exit |-> "completed",
               call |-> 1]
        /\ cacheUpdates[d] =
              [pc |-> "idle", forced |-> FALSE, exit |-> "noUpdateNeeded",
               call |-> 2]
        /\ updateCalls = 2
        /\ queueCalls = 1
        /\ queuedWhileUpdating
        /\ ~shouldUpdate
        /\ delayedCheck

====
